---- MODULE Spec2Model ----
(***************************************************************************)
(* Model of the PDF composition engine of sign-be (src/pdfService.js):     *)
(* generateCompletedDocument -> mergeDocumentsWithFields.                  *)
(*                                                                         *)
(* Lengths are kept in hundredths of a PDF point, so that the percentage   *)
(* arithmetic of the coordinate code ((p / 100) * pageWidth) is exact on   *)
(* integers.  Floating point rounding is not modelled.                     *)
(*                                                                         *)
(* File indices are 0-based as in the source; TLA+ sequences are 1-based,  *)
(* so files[i] of the source is files[i + 1] here.                         *)
(***************************************************************************)
EXTENDS Integers, Sequences, FiniteSets, TLC

\* ------------------------------------------------------------------ bounds
MaxFiles == 3
MaxPages == 2
MaxSigners == 2

\* ------------------------------------------------------------- vocabulary
FieldIds == {"f1", "f2"}

TextTypes == {"text", "name", "email", "phone", "date"}
SignTypes == {"signature", "initial"}
KnownTypes == TextTypes \cup {"checkbox"} \cup SignTypes

\* Values a signer can carry for a field id.
\*   undef    - no entry            empty   - ""
\*   txt      - a plain string the font can encode
\*   txtbad   - a plain string with a character Helvetica cannot encode
\*   true / false       - the booleans
\*   strtrue / strfalse - the strings "true" / "false"
\*   imgok    - "data:image/png;base64,<valid payload>"
\*   imgbad   - "data:image/png;base64,<corrupt payload>"
Values == {"undef", "empty", "txt", "txtbad", "true", "false",
           "strtrue", "strfalse", "imgok", "imgbad"}

\* !signerFieldData || signerFieldData === ''
IsFalsy(v) == v \in {"undef", "empty", "false"}

IsString(v) == v \in {"empty", "txt", "txtbad", "strtrue", "strfalse", "imgok", "imgbad"}

\* signerFieldData.startsWith('data:image/')
StartsWithDataImage(v) == v \in {"imgok", "imgbad"}

\* page.drawText throws when the font cannot encode the string
CanEncode(v) == v # "txtbad"

\* ----------------------------------------------------------- pure helpers
RECURSIVE SumSeq(_)
SumSeq(s) == IF s = <<>> THEN 0 ELSE Head(s) + SumSeq(Tail(s))

Max(a, b) == IF a >= b THEN a ELSE b
Min(a, b) == IF a <= b THEN a ELSE b

\* Mutant of IsSigned: every signer counts as signed.
IsSigned_AlwaysTrue(signer) == TRUE

\* The test `signer.signed` (lines 894 and 1099).
IsSigned(signer) == signer.signed

\* Mutant of FilterSigned: the list is passed on unfiltered.
FilterSigned_Unfiltered(ss) == ss

\* signersData.filter(signer => signer.signed)   (line 1099)
RECURSIVE FilterSigned(_)
FilterSigned(ss) ==
  IF ss = <<>> THEN <<>>
  ELSE IF IsSigned(Head(ss)) THEN <<Head(ss)>> \o FilterSigned(Tail(ss))
       ELSE FilterSigned(Tail(ss))


\* ---------------------------------------------------- coordinate resolver
\* Mutant of PercentBox: the box height is not subtracted in the flip.
PercentBox_NoHeightFlip(field, pageWidth, pageHeight) ==
  [x |-> field.leftPercent * pageWidth,
   y |-> (100 * pageHeight) - (field.topPercent * pageHeight),
   width |-> field.widthPercent * pageWidth,
   height |-> field.heightPercent * pageHeight]

\* Percentage form (pdfService.js 930-942).  Result in hundredths of a point.
PercentBox(field, pageWidth, pageHeight) ==
  LET width  == field.widthPercent * pageWidth
      height == field.heightPercent * pageHeight
      x      == field.leftPercent * pageWidth
      topY   == field.topPercent * pageHeight
      y      == (100 * pageHeight) - topY - height
  IN  [x |-> x, y |-> y, width |-> width, height |-> height]

\* Mutant of PixelBox: the field's numbers are used without scaling.
PixelBox_Unscaled(field, pageWidth, pageHeight) ==
  [x |-> field.x * 100,
   y |-> (100 * pageHeight) - (field.y * 100) - (field.height * 100),
   width |-> field.width * 100,
   height |-> field.height * 100]

\* Legacy pixel form (pdfService.js 944-962).  originalWidth = 0 stands for
\* an absent (or zero) originalWidth: `field.originalWidth || pageWidth`.
\* The inputs are drawn so that the divisions are exact.
PixelBox(field, pageWidth, pageHeight) ==
  LET originalWidth  == IF field.originalWidth # 0 THEN field.originalWidth ELSE pageWidth
      originalHeight == IF field.originalHeight # 0 THEN field.originalHeight ELSE pageHeight
      width  == (field.width * 100 * pageWidth) \div originalWidth
      height == (field.height * 100 * pageHeight) \div originalHeight
      x      == (field.x * 100 * pageWidth) \div originalWidth
      y      == (100 * pageHeight) - ((field.y * 100 * pageHeight) \div originalHeight)
                  - ((field.height * 100 * pageHeight) \div originalHeight)
  IN  [x |-> x, y |-> y, width |-> width, height |-> height]

\* The bounds test of line 970.
OutOfBounds(box, pageWidth, pageHeight) ==
  \/ box.x < 0
  \/ box.y < 0
  \/ box.x + box.width > 100 * pageWidth
  \/ box.y + box.height > 100 * pageHeight

\* Mutant of ClampBox: the offsets are clamped but the size is not shrunk.
ClampBox_NoShrink(box, pageWidth, pageHeight) ==
  [x |-> Max(0, Min(box.x, (100 * pageWidth) - box.width)),
   y |-> Max(0, Min(box.y, (100 * pageHeight) - box.height)),
   width |-> box.width, height |-> box.height]

\* Mutant of ClampBox: the size is shrunk before the offsets are clamped.
ClampBox_SizeFirst(box, pageWidth, pageHeight) ==
  LET width  == Min(box.width, (100 * pageWidth) - box.x)
      height == Min(box.height, (100 * pageHeight) - box.y)
      x == Max(0, Min(box.x, (100 * pageWidth) - width))
      y == Max(0, Min(box.y, (100 * pageHeight) - height))
  IN  [x |-> x, y |-> y, width |-> width, height |-> height]

\* Mutant of ClampBox: a box that sticks out is cut at the page edge instead
\* of being moved inward.
ClampBox_Crop(box, pageWidth, pageHeight) ==
  LET x == Max(0, Min(box.x, 100 * pageWidth))
      y == Max(0, Min(box.y, 100 * pageHeight))
      width  == Min(box.width, (100 * pageWidth) - x)
      height == Min(box.height, (100 * pageHeight) - y)
  IN  [x |-> x, y |-> y, width |-> width, height |-> height]

\* The four assignments of lines 981-984, in order.
ClampBox(box, pageWidth, pageHeight) ==
  LET x == Max(0, Min(box.x, (100 * pageWidth) - box.width))
      y == Max(0, Min(box.y, (100 * pageHeight) - box.height))
      width  == Min(box.width, (100 * pageWidth) - x)
      height == Min(box.height, (100 * pageHeight) - y)
  IN  [x |-> x, y |-> y, width |-> width, height |-> height]

HasCoordinates(field) == field.form \in {"pct", "px"}

\* Lines 930-987: the box finally used for drawing.
ResolveBox(field, pageWidth, pageHeight) ==
  LET raw == IF field.form = "pct" THEN PercentBox(field, pageWidth, pageHeight)
             ELSE PixelBox(field, pageWidth, pageHeight)
  IN  IF OutOfBounds(raw, pageWidth, pageHeight)
      THEN ClampBox(raw, pageWidth, pageHeight)
      ELSE raw

\* -------------------------------------------------------- field rendering
\* The switch of lines 992-1068.  Result: whether the statement throws out
\* of the field loop, and the draw operation put on the page (if any).
NoDraw == [thrown |-> FALSE, drawn |-> FALSE, op |-> "none", content |-> "none"]
Thrown == [thrown |-> TRUE, drawn |-> FALSE, op |-> "none", content |-> "none"]
Drawn(op, content) == [thrown |-> FALSE, drawn |-> TRUE, op |-> op, content |-> content]

\* page.drawText(value.toString(), ...) of a text-like value
DrawTextValue(v) == IF CanEncode(v) THEN Drawn("text", v) ELSE Thrown

\* Mutant of RenderField: a field of an unknown type is drawn as text.
RenderField_UnknownAsText(type, v) ==
  IF type \in TextTypes THEN DrawTextValue(v)
  ELSE IF type = "checkbox" THEN
    IF v \in {"true", "strtrue"} THEN Drawn("mark", "X") ELSE NoDraw
  ELSE IF type \in SignTypes THEN
    IF ~IsString(v) THEN Thrown
    ELSE IF StartsWithDataImage(v) THEN
      IF v = "imgok" THEN Drawn("image", v)
      ELSE Drawn("fallback", IF type = "initial" THEN "Initialed" ELSE "Signed")
    ELSE DrawTextValue(v)
  ELSE DrawTextValue(v)

\* Mutant of RenderField: a checkbox is marked for every truthy value.
RenderField_TruthyCheckbox(type, v) ==
  IF type \in TextTypes THEN DrawTextValue(v)
  ELSE IF type = "checkbox" THEN
    IF ~IsFalsy(v) THEN Drawn("mark", "X") ELSE NoDraw
  ELSE IF type \in SignTypes THEN
    IF ~IsString(v) THEN Thrown
    ELSE IF StartsWithDataImage(v) THEN
      IF v = "imgok" THEN Drawn("image", v)
      ELSE Drawn("fallback", IF type = "initial" THEN "Initialed" ELSE "Signed")
    ELSE DrawTextValue(v)
  ELSE NoDraw

\* Mutant of RenderField: a failing embed is not caught.
RenderField_NoEmbedCatch(type, v) ==
  IF type \in TextTypes THEN DrawTextValue(v)
  ELSE IF type = "checkbox" THEN
    IF v \in {"true", "strtrue"} THEN Drawn("mark", "X") ELSE NoDraw
  ELSE IF type \in SignTypes THEN
    IF ~IsString(v) THEN Thrown
    ELSE IF StartsWithDataImage(v) THEN
      IF v = "imgok" THEN Drawn("image", v) ELSE Thrown
    ELSE DrawTextValue(v)
  ELSE NoDraw

RenderField(type, v) ==
  IF type \in TextTypes THEN DrawTextValue(v)
  ELSE IF type = "checkbox" THEN
    IF v \in {"true", "strtrue"} THEN Drawn("mark", "X") ELSE NoDraw
  ELSE IF type \in SignTypes THEN
    IF ~IsString(v) THEN Thrown            \* true.startsWith is not a function
    ELSE IF StartsWithDataImage(v) THEN
      IF v = "imgok" THEN Drawn("image", v)
      ELSE Drawn("fallback", IF type = "initial" THEN "Initialed" ELSE "Signed")
    ELSE DrawTextValue(v)
  ELSE NoDraw

\* -------------------------------------------------------- draw parameters
\* The options handed to drawText / drawImage, in hundredths of a point
\* (maxWidth 0 and width/height 0 where the call passes none). The boxes of
\* the model make every quotient whole.
\* Math.max(8, Math.min(height * 0.6, 14)) (lines 998, 1054)
FontSize(height) == Max(800, Min((height * 6) \div 10, 1400))

\* Lines 998-1007: a text, name, email, phone or date field.
TextFieldParams(box) ==
  [x |-> box.x + 200,
   y |-> box.y + (box.height \div 2) - (FontSize(box.height) \div 2),
   size |-> FontSize(box.height),
   maxWidth |-> box.width - 400, width |-> 0, height |-> 0]

\* Mutant of SignatureTextParams: placed and sized like the fallback text.
SignatureTextParams_AsFallback(box) ==
  [x |-> box.x + 200,
   y |-> box.y + (box.height \div 2),
   size |-> Min((box.height * 6) \div 10, 1200),
   maxWidth |-> 0, width |-> 0, height |-> 0]

\* Lines 1053-1062: a signature or initial field holding plain text.
SignatureTextParams(box) ==
  LET fontSize == Max(800, Min((box.height * 6) \div 10, 1400))
  IN  [x |-> box.x + 200,
       y |-> box.y + (box.height \div 2) - (fontSize \div 2),
       size |-> fontSize,
       maxWidth |-> box.width - 400, width |-> 0, height |-> 0]

\* Lines 1011-1021: the mark of a checkbox; checkSize = min(width, height) * 0.8.
CheckboxParams(box) ==
  LET checkSize == (Min(box.width, box.height) * 8) \div 10
  IN  [x |-> box.x + ((box.width - checkSize) \div 2),
       y |-> box.y + ((box.height - checkSize) \div 2),
       size |-> checkSize, maxWidth |-> 0, width |-> 0, height |-> 0]

\* Lines 1038-1043: the signature image fills the box.
ImageParams(box) ==
  [x |-> box.x, y |-> box.y, size |-> 0, maxWidth |-> 0,
   width |-> box.width, height |-> box.height]

\* Lines 1045-1052: the text drawn when the image cannot be embedded.
FallbackParams(box) ==
  [x |-> box.x + 200,
   y |-> box.y + (box.height \div 2),
   size |-> Min((box.height * 6) \div 10, 1200),
   maxWidth |-> 0, width |-> 0, height |-> 0]

\* The options of the draw the switch of lines 992-1068 makes.
DrawParams(type, op, box) ==
  IF op = "mark" THEN CheckboxParams(box)
  ELSE IF op = "image" THEN ImageParams(box)
  ELSE IF op = "fallback" THEN FallbackParams(box)
  ELSE IF type \in SignTypes THEN SignatureTextParams(box)
  ELSE TextFieldParams(box)

\* ------------------------------------------------------ document accessors
\* const files = documentData.files || [documentData]   (line 785)
FilesOf(doc) ==
  IF doc.hasFiles THEN doc.files
  ELSE << [fileName |-> doc.fileName, fields |-> doc.fields] >>

TagFields(fields, fileIndex) ==
  [j \in 1..Len(fields) |-> [field |-> fields[j], fileIndex |-> fileIndex]]

RECURSIVE FlattenFields(_, _)
FlattenFields(files, fileIndex) ==
  IF files = <<>> THEN <<>>
  ELSE TagFields(Head(files).fields, fileIndex) \o FlattenFields(Tail(files), fileIndex + 1)

\* Lines 897-908.
AllFields(doc) ==
  IF doc.hasFiles /\ Len(doc.files) > 0 THEN FlattenFields(doc.files, 0)
  ELSE TagFields(doc.fields, 0)

\* Mutant of BuildPageMap: the page number is not made 0-based.
BuildPageMap_OneBased(pagesList, startIndices) ==
  LET keys == UNION { { <<fileIdx, pageNum>> : pageNum \in 1..pagesList[fileIdx + 1] } :
                      fileIdx \in 0..(Len(pagesList) - 1) }
  IN  [key \in keys |-> startIndices[key[1] + 1] + key[2]]

\* Lines 884-890.
BuildPageMap(pagesList, startIndices) ==
  LET keys == UNION { { <<fileIdx, pageNum>> : pageNum \in 1..pagesList[fileIdx + 1] } :
                      fileIdx \in 0..(Len(pagesList) - 1) }
  IN  [key \in keys |-> startIndices[key[1] + 1] + (key[2] - 1)]


\* ------------------------------------------------------------------ state
VARIABLES
  pc,                    \* position of the run: idle, analyze, convert, fields, done, failed
  documentData,          \* argument of generateCompletedDocument
  signersData,           \* argument of generateCompletedDocument (all signers)
  bucket,                \* storage: fileName -> what download() and conversion give
  signedSigners,         \* line 1099; the signersData of mergeDocumentsWithFields
  i,                     \* index of the file loops (lines 791, 838), 0-based
  processedFiles,        \* line 787
  hasValidFiles,         \* line 788
  filePageStartIndices,  \* line 783
  filePagesList,         \* line 786
  totalPages,            \* line 784
  mergedPDF,             \* pages of the merged document, in order
  filePageToGlobalPage,  \* line 884
  s,                     \* index of the signer loop (line 893), 0-based
  k,                     \* index of the field loop (line 910), 0-based
  draws,                 \* draw operations put on pages of mergedPDF, in order
  downloads,             \* file names bucket.file(..).download() was called with
  error,                 \* innermost cause of the thrown error, or "none"
  result,                \* returned buffer: the page count of the document in it
  title,                 \* title in the metadata of mergedPDF (line 1074)
  filename,              \* returned filename: << documentTitle, "-signed.pdf" >>
  docPc,                 \* position of a docToPDF call: idle, render, nodeHtml, canvas,
                         \* imagePdf, layout, lines, diagnostic, returned, thrown
  docBuffer,             \* argument of docToPDF: what the libraries do with the bytes
  tiers,                 \* the tiers docToPDF has run, in order, each with its outcome
  docResult,             \* what docToPDF returned
  pageCount,             \* pages of pdfDoc in docToPDFWithMammoth
  yPosition,             \* line 313
  lineNo,                \* lines of the text already laid out (loop of line 317)
  placed,                \* drawText calls of docToPDFWithMammoth, in order
  active,                \* which of two invocations the variables above belong to
  suspended,             \* the locals of the other invocation, waiting at an await
  phase,                 \* "alone": one invocation; "concurrent": two, interleaved
  reference,             \* what the first invocation gave when it ran alone
  buffer,                \* detectImageFormat: the bytes
  fileName,              \* detectImageFormat: the file name, a string of characters
  format,                \* detectImageFormat: the returned format, "pending" before
  image,                 \* imageToPDF: pixel width and height of the embedded image
  imagePage,             \* imageToPDF: the page made for it, NoPage before
  standalone,            \* draws addFieldsToPDF makes on a copy of the merged document
  standaloneFor,         \* number of signers addFieldsToPDF was called for
  standaloneError,       \* whether a call of addFieldsToPDF threw
  hostPath,              \* which caller of generateCompletedDocument acts: submit,
                         \* download, direct (a caller that passes the bucket), none
  storage,               \* what the storage bucket of the host holds, by file name
  hostDocument,          \* the document record the host read
  hostSigners,           \* its signers
  documents,             \* the document record held by the database
  submits                \* the submit requests in flight, with their locals

detectVars == << buffer, fileName, format >>
imageVars == << image, imagePage >>
standaloneVars == << standalone, standaloneFor, standaloneError >>
hostVars == << hostPath, storage, hostDocument, hostSigners >>
submitVars == << documents, submits >>
laterVars == << standaloneVars, hostVars, submitVars >>
auxVars == << detectVars, imageVars, laterVars >>

vars == << pc, documentData, signersData, bucket, signedSigners, i, processedFiles,
           hasValidFiles, filePageStartIndices, filePagesList, totalPages, mergedPDF,
           filePageToGlobalPage, s, k, draws, downloads, error, result,
           title, filename,
           docPc, docBuffer, tiers, docResult, pageCount, yPosition, lineNo, placed,
           active, suspended, phase, reference, auxVars >>

outVars == << title, filename >>
docVars == << docPc, docBuffer, tiers, docResult, pageCount, yPosition, lineNo, placed >>
runVars == << pc, documentData, signersData, bucket, signedSigners, i, processedFiles,
              hasValidFiles, filePageStartIndices, filePagesList, totalPages, mergedPDF,
              filePageToGlobalPage, s, k, draws, downloads, error, result, outVars,
              active, suspended, phase, reference, auxVars >>
coreVars == << pc, documentData, signersData, bucket, signedSigners, i, processedFiles,
               hasValidFiles, filePageStartIndices, filePagesList, totalPages, mergedPDF,
               filePageToGlobalPage, s, k, draws, downloads, error, result, outVars,
               active, suspended, phase, reference >>
concVars == << active, suspended, phase, reference >>
sideVars == << docVars, concVars, auxVars >>
layoutVars == << pageCount, yPosition, lineNo, placed >>
inputVars == << documentData, signersData, bucket, signedSigners >>
mergeVars == << processedFiles, hasValidFiles, filePageStartIndices, filePagesList,
                totalPages, mergedPDF, downloads >>

NoDoc == [hasFiles |-> TRUE, files |-> <<>>, fields |-> <<>>, fileName |-> 0,
          title |-> "undef", originalName |-> "undef"]
EmptyMap == [key \in {} |-> 0]
NoBuffer == [html |-> "ok", nodeHtml |-> "ok", canvas |-> "ok", imagePdf |-> "ok",
             extract |-> "ok", extractAgain |-> "ok", lines |-> 1, badLine |-> 0,
             blank |-> FALSE]

\* The locals and arguments of one invocation of generateCompletedDocument
\* (lines 782-788, 884, 1099, 1105) before it starts.
IdleFrame ==
  [ pc |-> "idle", documentData |-> NoDoc, signersData |-> <<>>, bucket |-> <<>>,
    signedSigners |-> <<>>, i |-> 0, processedFiles |-> <<>>,
    hasValidFiles |-> FALSE, filePageStartIndices |-> <<>>, filePagesList |-> <<>>,
    totalPages |-> 0, mergedPDF |-> <<>>, filePageToGlobalPage |-> EmptyMap, s |-> 0,
    k |-> 0, draws |-> <<>>, downloads |-> <<>>, error |-> "none", result |-> -1,
    title |-> "none", filename |-> <<>> ]

RunInit ==
  /\ pc = "idle"
  /\ documentData = NoDoc
  /\ signersData = <<>>
  /\ bucket = <<>>
  /\ signedSigners = <<>>
  /\ i = 0
  /\ processedFiles = <<>>
  /\ hasValidFiles = FALSE
  /\ filePageStartIndices = <<>>
  /\ filePagesList = <<>>
  /\ totalPages = 0
  /\ mergedPDF = <<>>
  /\ filePageToGlobalPage = EmptyMap
  /\ s = 0
  /\ k = 0
  /\ draws = <<>>
  /\ downloads = <<>>
  /\ error = "none"
  /\ result = -1
  /\ title = "none"
  /\ filename = <<>>
  /\ docPc = "idle"
  /\ docBuffer = NoBuffer
  /\ tiers = <<>>
  /\ docResult = "none"
  /\ pageCount = 0
  /\ yPosition = 0
  /\ lineNo = 0
  /\ placed = <<>>
  /\ active = 1
  /\ suspended = IdleFrame
  /\ phase = "alone"
  /\ reference = IdleFrame

\* No call of a helper is under way.
DetectIdle ==
  /\ buffer = <<>>
  /\ fileName = <<>>
  /\ format = "pending"

NoPage == [width |-> [num |-> 0, den |-> 1], height |-> [num |-> 0, den |-> 1],
           draw |-> [x |-> 0, y |-> 0, width |-> [num |-> 0, den |-> 1],
                     height |-> [num |-> 0, den |-> 1]]]

ImageIdle ==
  /\ image = [width |-> 1, height |-> 1]
  /\ imagePage = NoPage

StandaloneIdle ==
  /\ standalone = <<>>
  /\ standaloneFor = 0
  /\ standaloneError = FALSE

HostIdle ==
  /\ hostPath = "none"
  /\ storage = <<>>
  /\ hostDocument = NoDoc
  /\ hostSigners = <<>>

\* doc.exists is false: no such document.
NoRecord == [exists |-> FALSE, signers |-> <<>>, status |-> "none"]

SubmitIdle ==
  /\ documents = NoRecord
  /\ submits = <<>>

LaterIdle == StandaloneIdle /\ HostIdle /\ SubmitIdle

AuxInit == DetectIdle /\ ImageIdle /\ LaterIdle

Init == RunInit /\ AuxInit

\* --------------------------------------------- generateCompletedDocument
\* Lines 1096-1104: filter the signed signers; throw when there is none,
\* otherwise enter mergeDocumentsWithFields (lines 782-788).
GenerateCompletedDocument(doc, signers, bkt) ==
  /\ pc = "idle"
  /\ documentData' = doc
  /\ signersData' = signers
  /\ bucket' = bkt
  /\ signedSigners' = FilterSigned(signers)
  /\ IF Len(FilterSigned(signers)) = 0
     THEN /\ pc' = "failed"
          /\ error' = "NoSignedData"
     ELSE /\ pc' = "analyze"
          /\ error' = "none"
  /\ UNCHANGED << sideVars, outVars, i, mergeVars, filePageToGlobalPage, s, k, draws, result >>

\* this.isPDF / this.isDOC / this.detectImageFormat on the downloaded buffer
\* (lines 798-817): the detected type is a property of the stored bytes.
DetectType(content) == content.type

\* One iteration of the loop of lines 791-829. The download of line 797 is
\* awaited without a time limit: the iteration goes on when it has settled.
AnalyzeFile ==
  /\ pc = "analyze"
  /\ i < Len(FilesOf(documentData))
  /\ bucket[FilesOf(documentData)[i + 1].fileName].fetch # "hangs"
  /\ LET file == FilesOf(documentData)[i + 1]
         content == bucket[file.fileName]
     IN  IF content.fetch = "ok" /\ DetectType(content) # "unknown"
         THEN /\ hasValidFiles' = TRUE
              /\ processedFiles' = Append(processedFiles,
                     [buffer |-> content, file |-> i, type |-> DetectType(content)])
         ELSE \* download() threw (caught, line 826) or unsupported format (line 824)
              UNCHANGED << hasValidFiles, processedFiles >>
  /\ downloads' = Append(downloads, FilesOf(documentData)[i + 1].fileName)
  /\ i' = i + 1
  /\ UNCHANGED << sideVars, outVars, pc, inputVars, filePageStartIndices, filePagesList, totalPages,
                  mergedPDF, filePageToGlobalPage, s, k, draws, error, result >>

\* Lines 831-833, after the analysis loop.
CheckValidFiles ==
  /\ pc = "analyze"
  /\ i = Len(FilesOf(documentData))
  /\ IF ~hasValidFiles
     THEN /\ pc' = "failed"
          /\ error' = "NoSupportedFiles"
     ELSE /\ pc' = "convert"
          /\ error' = error
  /\ i' = 0
  /\ UNCHANGED << sideVars, outVars, inputVars, mergeVars, filePageToGlobalPage, s, k, draws, result >>

\* imageToPDF always builds one page; a stored PDF or a converted document
\* has the pages its bytes describe.
PageCountOf(entry) == IF entry.type = "image" THEN 1 ELSE entry.buffer.pages

\* Mutant of CopyPages: the pages are added in reverse order.
CopyPages_Reversed(entry) ==
  [p \in 1..PageCountOf(entry) |->
      [file |-> entry.file, pageNo |-> PageCountOf(entry) + 1 - p,
       width |-> entry.buffer.width, height |-> entry.buffer.height]]

\* The pages copied from one source (lines 859-861), tagged with the file
\* and page they were copied from.
CopyPages(entry) ==
  [p \in 1..PageCountOf(entry) |->
      [file |-> entry.file, pageNo |-> p,
       width |-> entry.buffer.width, height |-> entry.buffer.height]]

\* One iteration of the loop of lines 838-874.
ConvertFile ==
  /\ pc = "convert"
  /\ i < Len(processedFiles)
  /\ LET entry == processedFiles[i + 1]
     IN  IF entry.buffer.loads
         THEN /\ filePageStartIndices' = Append(filePageStartIndices, totalPages)
              /\ filePagesList' = Append(filePagesList, PageCountOf(entry))
              /\ mergedPDF' = mergedPDF \o CopyPages(entry)
              /\ totalPages' = totalPages + PageCountOf(entry)
         ELSE \* conversion or PDFDocument.load threw (caught, line 870)
              UNCHANGED << filePageStartIndices, filePagesList, mergedPDF, totalPages >>
  /\ i' = i + 1
  /\ UNCHANGED << sideVars, outVars, pc, inputVars, processedFiles, hasValidFiles, downloads,
                  filePageToGlobalPage, s, k, draws, error, result >>

\* Mutant of NoValidPages: the page check never fires.
NoValidPages_Never(total) == total < 0

\* The test of line 877.
NoValidPages(total) == total = 0

\* Lines 876-890, after the conversion loop: the page check and the PageMap.
CheckPagesAndMap ==
  /\ pc = "convert"
  /\ i = Len(processedFiles)
  /\ IF NoValidPages(totalPages)
     THEN /\ pc' = "failed"
          /\ error' = "NoValidPages"
          /\ UNCHANGED filePageToGlobalPage
     ELSE /\ pc' = "fields"
          /\ error' = error
          /\ filePageToGlobalPage' = BuildPageMap(filePagesList, filePageStartIndices)
  /\ s' = 0
  /\ k' = 0
  /\ UNCHANGED << sideVars, outVars, inputVars, i, mergeVars, draws, result >>

\* `signerData.signed && signerData.fieldValues` (line 894)
SignerHasData(signer) == IsSigned(signer) /\ signer.hasFieldValues

\* A signer without data is passed over (line 894).
SkipSigner ==
  /\ pc = "fields"
  /\ s < Len(signedSigners)
  /\ ~SignerHasData(signedSigners[s + 1])
  /\ s' = s + 1
  /\ k' = 0
  /\ UNCHANGED << sideVars, outVars, pc, inputVars, i, mergeVars, filePageToGlobalPage, draws, error, result >>

\* field.pageNumber || 1 (line 914); pageNumber 0 stands for absent or 0
PageNumOf(field) == IF field.pageNumber # 0 THEN field.pageNumber ELSE 1

\* field.fileIndex || field.documentIndex || 0 (line 915)
FileIdxOf(tagged) == tagged.fileIndex

\* Mutant of DrawOnPage: a draw replaces the earlier draws of the same field
\* on the same page.
DrawOnPage_Replacing(made, d) ==
  LET SelectOthers(e) == ~(e.page = d.page /\ e.field = d.field /\ e.fileIndex = d.fileIndex)
  IN  Append(SelectSeq(made, SelectOthers), d)

\* page.drawText / page.drawImage (lines 1000, 1014, 1038, 1046, 1055): the
\* operation is added to the content of the page.
DrawOnPage(made, d) == Append(made, d)

\* One iteration of the loop of lines 910-1069.
CompositeField ==
  /\ pc = "fields"
  /\ s < Len(signedSigners)
  /\ SignerHasData(signedSigners[s + 1])
  /\ k < Len(AllFields(documentData))
  /\ LET signer == signedSigners[s + 1]
         tagged == AllFields(documentData)[k + 1]
         field  == tagged.field
         signerFieldData == signer.fieldValues[field.id]
         key == << FileIdxOf(tagged), PageNumOf(field) >>
     IN  IF IsFalsy(signerFieldData)
         THEN UNCHANGED << pc, draws, error >>                        \* line 912
         ELSE IF key \notin DOMAIN filePageToGlobalPage
         THEN UNCHANGED << pc, draws, error >>                        \* line 917
         ELSE IF ~HasCoordinates(field)
         THEN UNCHANGED << pc, draws, error >>                        \* line 964
         ELSE LET globalPageIndex == filePageToGlobalPage[key]
                  page == mergedPDF[globalPageIndex + 1]
                  box == ResolveBox(field, page.width, page.height)
                  r == RenderField(field.type, signerFieldData)
              IN  IF r.thrown
                  THEN /\ pc' = "failed"                              \* line 1084
                       /\ error' = "FieldError"
                       /\ UNCHANGED draws
                  ELSE /\ UNCHANGED << pc, error >>
                       /\ draws' = IF r.drawn
                                   THEN DrawOnPage(draws,
                                     [page |-> globalPageIndex, signer |-> signer.email,
                                      field |-> field.id, fileIndex |-> tagged.fileIndex,
                                      pageNumber |-> field.pageNumber,
                                      op |-> r.op, content |-> r.content, box |-> box,
                                      params |-> DrawParams(field.type, r.op, box)])
                                   ELSE draws
  /\ k' = k + 1
  /\ UNCHANGED << sideVars, outVars, inputVars, i, mergeVars, filePageToGlobalPage, s, result >>

\* Mutant of NextSigner: the signer loop ends after the first signer.
NextSigner_StopAfterFirst ==
  /\ pc = "fields"
  /\ s < Len(signedSigners)
  /\ SignerHasData(signedSigners[s + 1])
  /\ k = Len(AllFields(documentData))
  /\ s' = Len(signedSigners)
  /\ k' = 0
  /\ UNCHANGED << sideVars, outVars, pc, inputVars, i, mergeVars, filePageToGlobalPage, draws, error, result >>

\* End of the field loop of one signer: on to the next signer.
NextSigner ==
  /\ pc = "fields"
  /\ s < Len(signedSigners)
  /\ SignerHasData(signedSigners[s + 1])
  /\ k = Len(AllFields(documentData))
  /\ s' = s + 1
  /\ k' = 0
  /\ UNCHANGED << sideVars, outVars, pc, inputVars, i, mergeVars, filePageToGlobalPage, draws, error, result >>

\* documentData.title || documentData.originalName || fallback (lines 1074,
\* 1105): undefined and the empty string are falsy.
TitleOr(doc, fallback) ==
  IF doc.title \notin {"undef", "empty"} THEN doc.title
  ELSE IF doc.originalName \notin {"undef", "empty"} THEN doc.originalName
  ELSE fallback

\* Lines 1073-1083 and 1105-1109: metadata, save, return.
Finish ==
  /\ pc = "fields"
  /\ s = Len(signedSigners)
  /\ pc' = "done"
  /\ result' = Len(mergedPDF)
  /\ title' = TitleOr(documentData, "Signed Document")                 \* line 1074
  /\ filename' = << TitleOr(documentData, "completed-document"), "-signed.pdf" >>
  /\ UNCHANGED << sideVars, inputVars, i, mergeVars, filePageToGlobalPage, s, k, draws, error >>


\* ------------------------------------------------- inputs of the run
\* What the storage holds under a file name.
FetchFails == [fetch |-> "throws", type |-> "unknown", loads |-> FALSE,
               pages |-> 0, width |-> 0, height |-> 0]
Unrecognized == [fetch |-> "ok", type |-> "unknown", loads |-> FALSE,
                 pages |-> 0, width |-> 0, height |-> 0]
Broken(type) == [fetch |-> "ok", type |-> type, loads |-> FALSE,
                 pages |-> 0, width |-> 0, height |-> 0]
FetchHangs == [fetch |-> "hangs", type |-> "pdf", loads |-> TRUE,
               pages |-> 1, width |-> 200, height |-> 400]
Stored(type, pages, width, height) ==
  [fetch |-> "ok", type |-> type, loads |-> TRUE,
   pages |-> pages, width |-> width, height |-> height]

\* Page sizes in points.
PageSizes == { <<200, 400>>, <<600, 800>> }

MkField(id, type, pageNumber, form, a, b, c, d, ow, oh) ==
  [id |-> id, type |-> type, pageNumber |-> pageNumber, form |-> form,
   leftPercent  |-> IF form = "pct" THEN a ELSE 0,
   topPercent   |-> IF form = "pct" THEN b ELSE 0,
   widthPercent |-> IF form = "pct" THEN c ELSE 0,
   heightPercent |-> IF form = "pct" THEN d ELSE 0,
   x |-> IF form = "px" THEN a ELSE 0,
   y |-> IF form = "px" THEN b ELSE 0,
   width  |-> IF form = "px" THEN c ELSE 0,
   height |-> IF form = "px" THEN d ELSE 0,
   originalWidth |-> ow, originalHeight |-> oh]

\* The field of the end-to-end scenario of the specification.
StdField(id, type, pageNumber) == MkField(id, type, pageNumber, "pct", 10, 20, 30, 5, 0, 0)

MkSigner(email, signed, hasFieldValues, v1, v2) ==
  [email |-> email, signed |-> signed, hasFieldValues |-> hasFieldValues,
   fieldValues |-> [id \in FieldIds |-> IF id = "f1" THEN v1 ELSE v2]]

MkDoc(files) ==
  [hasFiles |-> TRUE, files |-> files, fields |-> <<>>, fileName |-> 0,
   title |-> "Contract", originalName |-> "contract.pdf"]
MkSingleDoc(fields) ==
  [hasFiles |-> FALSE, files |-> <<>>, fields |-> fields, fileName |-> 1,
   title |-> "Contract", originalName |-> "contract.pdf"]

\* Paging: up to MaxFiles files, each fetched or not, recognised or not,
\* loadable or not, with 0..MaxPages pages; field f2 sits on page 1 of the
\* first file and field f1 on any page of any file; one signed signer.
PagingContents ==
  { FetchFails, Unrecognized, Broken("pdf") } \cup
  { Stored("pdf", p, 200, 400) : p \in 0..MaxPages }

PagingFiles(n, owner, p) ==
  [j \in 1..n |->
     [fileName |-> j,
      fields |-> (IF j = 1 THEN << StdField("f2", "name", 1) >> ELSE <<>>) \o
                 (IF j = owner THEN << StdField("f1", "text", p) >> ELSE <<>>)]]

OneSigner(v1, v2) == << MkSigner(1, TRUE, TRUE, v1, v2) >>

CallPaging ==
  \/ \E n \in 1..MaxFiles : \E owner \in 1..n, p \in 0..MaxPages :
       \E bkt \in [1..n -> PagingContents] :
         GenerateCompletedDocument(MkDoc(PagingFiles(n, owner, p)),
                                   OneSigner("txt", "txt"), bkt)
  \/ GenerateCompletedDocument(MkDoc(<<>>), OneSigner("txt", "txt"), <<>>)
  \/ \E p \in 0..MaxPages, c \in PagingContents :
       GenerateCompletedDocument(MkSingleDoc(<< StdField("f1", "text", p) >>),
                                 OneSigner("txt", "txt"), << c >>)

\* Formats: two files of any supported kind.
FormatContents ==
  { Stored("pdf", 1, 200, 400), Stored("image", 1, 200, 400), Broken("image"),
    Stored("doc", MaxPages, 600, 800), Broken("doc") }

CallFormats ==
  \E bkt \in [1..2 -> FormatContents] :
    GenerateCompletedDocument(MkDoc(PagingFiles(2, 2, 1)), OneSigner("txt", "txt"), bkt)

\* Signers: any list of up to MaxSigners signers, signed or not, with or
\* without values, over a two-file document.  The e-th signer has email e.
SignerOptions ==
  { MkSigner(0, sg, hv, v1, v2) :
    sg \in BOOLEAN, hv \in BOOLEAN, v1 \in {"undef", "txt"}, v2 \in {"undef", "txt"} }
  \ { MkSigner(0, sg, FALSE, v1, v2) :
      sg \in BOOLEAN, v1 \in {"txt"}, v2 \in {"undef", "txt"} }

SignerList(options) ==
  [e \in 1..Len(options) |-> [options[e] EXCEPT !.email = e]]

CallSigners ==
  \E n \in 0..MaxSigners : \E options \in [1..n -> SignerOptions] :
    \E bkt \in [1..2 -> { FetchFails, Stored("pdf", 1, 200, 400) }] :
      GenerateCompletedDocument(MkDoc(PagingFiles(2, 2, 1)), SignerList(options), bkt)

\* Coordinates: one single-page file, one text field with any position.
PctValues == { -20, 0, 30, 70, 100, 130 }
PxOffsets == { -100, 0, 100, 300 }
PxWidths  == { 0, 100, 700 }
PxHeights == { 0, 100, 900 }
OriginalWidths  == { 0, 100, 400 }
OriginalHeights == { 0, 200, 400 }

CallCoordField(f) ==
  \E sz \in PageSizes :
    GenerateCompletedDocument(MkDoc(<< [fileName |-> 1, fields |-> << f >>] >>),
                              OneSigner("txt", "undef"),
                              << Stored("pdf", 1, sz[1], sz[2]) >>)

CallCoords ==
  \/ \E a \in PctValues, b \in PctValues, c \in PctValues, d \in PctValues :
       \E t \in {"text", "signature"} :
         CallCoordField(MkField("f1", t, 1, "pct", a, b, c, d, 0, 0))
  \/ \E a \in PxOffsets, b \in PxOffsets, c \in PxWidths, d \in PxHeights :
       \E ow \in OriginalWidths, oh \in OriginalHeights :
         CallCoordField(MkField("f1", "text", 1, "px", a, b, c, d, ow, oh))
  \/ CallCoordField(MkField("f1", "text", 1, "none", 0, 0, 0, 0, 0, 0))

\* Types: one two-page file; field f1 of any type with any value on page 1
\* (or on a page that does not exist, or without coordinates), followed by
\* the text field f2 on page 2.
FieldTypes == KnownTypes \cup {"other"}

TypeFields ==
  { StdField("f1", t, p) : t \in FieldTypes, p \in {1, MaxPages + 1} }
  \cup { MkField("f1", t, 1, "none", 0, 0, 0, 0, 0, 0) : t \in FieldTypes }

CallTypes ==
  \E f \in TypeFields, v \in Values :
    GenerateCompletedDocument(
      MkDoc(<< [fileName |-> 1, fields |-> << f, StdField("f2", "text", 2) >>] >>),
      OneSigner(v, "txt"),
      << Stored("pdf", MaxPages, 200, 400) >>)

\* Order: signer A (email 1) fills f1 and signer B (email 2) fills f2 (or
\* f1 as well); the two come in either order; both fields sit in one file.
OrderFields(p1, p2) ==
  << StdField("f1", "text", p1),
     MkField("f2", "signature", p2, "pct", 50, 60, 40, 10, 0, 0) >>

OrderSigners(va, vb1, vb2) ==
  { << MkSigner(1, TRUE, TRUE, va, "undef"), MkSigner(2, TRUE, TRUE, vb1, vb2) >>,
    << MkSigner(2, TRUE, TRUE, vb1, vb2), MkSigner(1, TRUE, TRUE, va, "undef") >> }

CallOrder ==
  \E p1 \in 1..MaxPages, p2 \in 1..MaxPages :
    \E va \in {"txt", "strtrue"}, vb1 \in {"undef", "txt"}, vb2 \in {"txt", "imgok", "imgbad"} :
      \E ss \in OrderSigners(va, vb1, vb2) :
        GenerateCompletedDocument(
          MkDoc(<< [fileName |-> 1, fields |-> OrderFields(p1, p2)] >>),
          ss, << Stored("pdf", MaxPages, 200, 400) >>)

\* Skips: field f1 lacks coordinates, names a page that does not exist, has
\* an unknown type, or is in order; f2 follows it; two signers fill both.
SkipFields ==
  { MkField("f1", "text", 1, "none", 0, 0, 0, 0, 0, 0),
    StdField("f1", "text", MaxPages + 1),
    StdField("f1", "other", 1),
    StdField("f1", "text", 1) }

CallSkips ==
  \E f \in SkipFields, v \in {"txt", "txtbad", "true", "imgbad"} :
    GenerateCompletedDocument(
      MkDoc(<< [fileName |-> 1,
                fields |-> << f, MkField("f2", "signature", 1, "pct", 50, 60, 40, 10, 0, 0) >>] >>),
      << MkSigner(1, TRUE, TRUE, v, "txt"), MkSigner(2, TRUE, TRUE, "txt", "imgok") >>,
      << Stored("pdf", MaxPages, 200, 400) >>)

\* Titles: title and originalName each absent, empty or present.
Titles == {"undef", "empty", "Contract"}
OriginalNames == {"undef", "empty", "contract.pdf"}

CallTitles ==
  \E t \in Titles, o \in OriginalNames :
    GenerateCompletedDocument(
      [MkSingleDoc(<< StdField("f1", "text", 1) >>) EXCEPT !.title = t, !.originalName = o],
      OneSigner("txt", "undef"), << Stored("pdf", 1, 200, 400) >>)

\* ------------------------------------------------------------ specification
Call ==
  /\ pc = "idle"
  /\ (CallPaging \/ CallFormats \/ CallSigners \/ CallCoords \/ CallTypes \/ CallOrder
        \/ CallTitles \/ CallSkips)

Next ==
  \/ Call
  \/ AnalyzeFile
  \/ CheckValidFiles
  \/ ConvertFile
  \/ CheckPagesAndMap
  \/ SkipSigner
  \/ CompositeField
  \/ NextSigner
  \/ Finish

Spec == Init /\ [][Next]_vars

\* Runs in which the storage may never answer a download. A step of the run
\* is taken once the call it awaits has settled (the event loop resumes every
\* continuation whose promise is settled), which is weak fairness of the steps.
HangContents == { FetchHangs, FetchFails, Stored("pdf", 1, 200, 400) }

CallHang ==
  \E n \in 1..MaxFiles : \E bkt \in [1..n -> HangContents] :
    GenerateCompletedDocument(MkDoc(PagingFiles(n, 1, 1)), OneSigner("txt", "txt"), bkt)

FairNext ==
  \/ pc = "idle" /\ (CallHang \/ CallSigners)
  \/ AnalyzeFile
  \/ CheckValidFiles
  \/ ConvertFile
  \/ CheckPagesAndMap
  \/ SkipSigner
  \/ CompositeField
  \/ NextSigner
  \/ Finish

FairSpec == Init /\ [][FairNext]_vars /\ WF_vars(FairNext)

TypeOK ==
  /\ pc \in {"idle", "analyze", "convert", "fields", "done", "failed"}
  /\ error \in {"none", "NoSignedData", "NoSupportedFiles", "NoValidPages", "FieldError"}
  /\ totalPages = Len(mergedPDF)
  /\ Len(filePagesList) = Len(filePageStartIndices)

\* ------------------------------------------------------- two invocations
\* The locals and arguments of the running invocation.
Frame ==
  [ pc |-> pc, documentData |-> documentData, signersData |-> signersData,
    bucket |-> bucket, signedSigners |-> signedSigners, i |-> i,
    processedFiles |-> processedFiles, hasValidFiles |-> hasValidFiles,
    filePageStartIndices |-> filePageStartIndices, filePagesList |-> filePagesList,
    totalPages |-> totalPages, mergedPDF |-> mergedPDF,
    filePageToGlobalPage |-> filePageToGlobalPage, s |-> s, k |-> k, draws |-> draws,
    downloads |-> downloads, error |-> error, result |-> result, title |-> title,
    filename |-> filename ]

LoadFrame(f) ==
  /\ pc' = f.pc
  /\ documentData' = f.documentData
  /\ signersData' = f.signersData
  /\ bucket' = f.bucket
  /\ signedSigners' = f.signedSigners
  /\ i' = f.i
  /\ processedFiles' = f.processedFiles
  /\ hasValidFiles' = f.hasValidFiles
  /\ filePageStartIndices' = f.filePageStartIndices
  /\ filePagesList' = f.filePagesList
  /\ totalPages' = f.totalPages
  /\ mergedPDF' = f.mergedPDF
  /\ filePageToGlobalPage' = f.filePageToGlobalPage
  /\ s' = f.s
  /\ k' = f.k
  /\ draws' = f.draws
  /\ downloads' = f.downloads
  /\ error' = f.error
  /\ result' = f.result
  /\ title' = f.title
  /\ filename' = f.filename

\* Mutant of Resumed: the merged document is a field of the service object,
\* shared by the invocations.
Resumed_SharedDocument(saved, current) ==
  [saved EXCEPT !.mergedPDF = current.mergedPDF, !.totalPages = current.totalPages]

\* What an invocation finds when it resumes after an await: its own locals
\* (lines 782-788 declare them with const/let inside the method), whatever
\* the other invocation did meanwhile; the service object (lines 5-8,
\* 1115-1117) has no fields.
Resumed(saved, current) == saved

\* The running invocation waits at an await and the other one goes on.
Switch ==
  /\ phase = "concurrent"
  /\ LoadFrame(Resumed(suspended, Frame))
  /\ suspended' = Frame
  /\ active' = 3 - active
  /\ UNCHANGED << docVars, auxVars, phase, reference >>

\* The invocation that ran alone has ended: its outcome is kept, and the
\* same call is made again, this time beside another invocation.
Restart ==
  /\ phase = "alone"
  /\ pc \in {"done", "failed"}
  /\ reference' = Frame
  /\ phase' = "concurrent"
  /\ LoadFrame(IdleFrame)
  /\ UNCHANGED << docVars, auxVars, active, suspended >>

\* Calls of two callers: documents of one or two files, a download that
\* fails, pages of two sizes, one or two signers.
ConcContents == { FetchFails, Stored("pdf", 1, 200, 400), Stored("pdf", MaxPages, 600, 800) }
ConcSigners ==
  { OneSigner("txt", "txt"),
    << MkSigner(1, TRUE, FALSE, "txt", "txt"), MkSigner(2, TRUE, TRUE, "imgok", "undef") >> }

ConcCall ==
  \E n \in 1..2 : \E bkt \in [1..n -> ConcContents], ss \in ConcSigners :
    GenerateCompletedDocument(MkDoc(PagingFiles(n, n, 1)), ss, bkt)

CallAlone == pc = "idle" /\ phase = "alone" /\ ConcCall

CallAgain ==
  /\ phase = "concurrent"
  /\ active = 1
  /\ GenerateCompletedDocument(reference.documentData, reference.signersData, reference.bucket)

CallOther == pc = "idle" /\ phase = "concurrent" /\ active = 2 /\ ConcCall

ConcNext ==
  \/ CallAlone
  \/ Restart
  \/ CallAgain
  \/ CallOther
  \/ Switch
  \/ AnalyzeFile
  \/ CheckValidFiles
  \/ ConvertFile
  \/ CheckPagesAndMap
  \/ SkipSigner
  \/ CompositeField
  \/ NextSigner
  \/ Finish

ConcSpec == Init /\ [][ConcNext]_vars

\* ======================================================= detectImageFormat
HeaderSize == 16
MaxBytes == 20

\* buffer.slice(from, to): the bytes from (0-based) up to, not including, to.
Slice(bytes, from, to) == SubSeq(bytes, from + 1, Min(to, Len(bytes)))

PngSignature == << 137, 80, 78, 71, 13, 10, 26, 10 >>
Gif87a == << 71, 73, 70, 56, 55, 97 >>
Gif89a == << 71, 73, 70, 56, 57, 97 >>
Riff == << 82, 73, 70, 70 >>
Webp == << 87, 69, 66, 80 >>

\* The signature tests of lines 54-87, in order, on the first 16 bytes.
MagicFormat(header) ==
  IF Len(header) >= 2 /\ header[1] = 255 /\ header[2] = 216 THEN "jpeg"
  ELSE IF Slice(header, 0, 8) = PngSignature THEN "png"
  ELSE IF Slice(header, 0, 6) = Gif87a \/ Slice(header, 0, 6) = Gif89a THEN "gif"
  ELSE IF Slice(header, 0, 4) = Riff /\ Slice(header, 8, 12) = Webp THEN "webp"
  ELSE IF Len(header) >= 2 /\ header[1] = 66 /\ header[2] = 77 THEN "bmp"
  ELSE IF Slice(header, 0, 4) = << 73, 73, 42, 0 >> THEN "tiff"
  ELSE IF Slice(header, 0, 4) = << 77, 77, 0, 42 >> THEN "tiff"
  ELSE "none"

\* toLowerCase on the characters file names are made of here.
ToLowerCase(c) ==
  CASE c = "J" -> "j" [] c = "P" -> "p" [] c = "G" -> "g" [] c = "N" -> "n"
    [] OTHER -> c

\* fileName.split('.').pop(): what follows the last dot, the whole name
\* when it has no dot.
RECURSIVE LastSegment(_)
LastSegment(name) ==
  IF name = <<>> THEN <<>>
  ELSE IF name[Len(name)] = "." THEN <<>>
  ELSE LastSegment(SubSeq(name, 1, Len(name) - 1)) \o << name[Len(name)] >>

\* Lines 97-120.
DetectFormatByExtension(name) ==
  IF name = <<>> THEN "null"
  ELSE LET ext == [c \in 1..Len(LastSegment(name)) |-> ToLowerCase(LastSegment(name)[c])]
       IN  CASE ext \in { << "j", "p", "g" >>, << "j", "p", "e", "g" >> } -> "jpeg"
             [] ext = << "p", "n", "g" >> -> "png"
             [] ext = << "g", "i", "f" >> -> "gif"
             [] ext = << "w", "e", "b", "p" >> -> "webp"
             [] ext = << "b", "m", "p" >> -> "bmp"
             [] ext \in { << "t", "i", "f", "f" >>, << "t", "i", "f" >> } -> "tiff"
             [] OTHER -> "null"

\* Lines 46-92.
DetectImageFormat(bytes, name) ==
  IF Len(bytes) < HeaderSize THEN DetectFormatByExtension(name)
  ELSE IF MagicFormat(Slice(bytes, 0, HeaderSize)) # "none"
       THEN MagicFormat(Slice(bytes, 0, HeaderSize))
  ELSE DetectFormatByExtension(name)

\* The call returns.
DetectReturns ==
  /\ format = "pending"
  /\ format' = DetectImageFormat(buffer, fileName)
  /\ UNCHANGED << coreVars, docVars, imageVars, laterVars, buffer, fileName >>

\* Buffers: the start of a file of each format (or of none), cut or padded
\* with zero bytes to a length around the 16-byte header.
Zeros(n) == [b \in 1..n |-> 0]
FileStarts ==
  { << 255, 216, 255, 224 >>, PngSignature, Gif87a, Gif89a,
    Riff \o << 36, 0, 0, 0 >> \o Webp,
    Riff \o << 36, 0, 0, 0 >> \o << 87, 65, 86, 69 >>,
    << 66, 77 >>, << 73, 73, 42, 0 >>, << 77, 77, 0, 42 >>,
    << 37, 80, 68, 70 >>, << 137, 80, 78, 71, 13, 10, 26, 0 >>, <<>> }
Lengths == {0, 2, 8, 12, HeaderSize - 1, HeaderSize, MaxBytes}
Bytes(start, n) ==
  IF n <= Len(start) THEN SubSeq(start, 1, n) ELSE start \o Zeros(n - Len(start))

FileNames ==
  { <<>>, << "a", ".", "j", "p", "g" >>, << "a", ".", "J", "P", "G" >>,
    << "a", ".", "j", "p", "e", "g" >>, << "a", ".", "p", "n", "g" >>,
    << "a", ".", "g", "i", "f" >>, << "a", ".", "w", "e", "b", "p" >>,
    << "a", ".", "b", "m", "p" >>, << "a", ".", "t", "i", "f" >>,
    << "a", ".", "b", ".", "p", "n", "g" >>, << "p", "n", "g" >>,
    << "a", ".", "p", "d", "f" >>, << "a", "." >> }

DetectInit ==
  /\ RunInit
  /\ ImageIdle
  /\ LaterIdle
  /\ buffer \in { Bytes(start, n) : start \in FileStarts, n \in Lengths }
  /\ fileName \in FileNames
  /\ format = "pending"

DetectNext == DetectReturns

DetectSpec == DetectInit /\ [][DetectNext]_vars

\* ============================================================= imageToPDF
\* Lengths of this part are exact fractions [num, den] of a point.
MaxPixels == 1200
MaxWidthPt == 595
MaxHeightPt == 842

Frac(num, den) == [num |-> num, den |-> den]
Times(n, frac) == Frac(n * frac.num, frac.den)
FracLeq(a, b) == a.num * b.den <= b.num * a.den
FracEq(a, b) == a.num * b.den = b.num * a.den

\* Mutant of ImageScale: the larger of the two ratios.
ImageScale_Max(width, height) ==
  IF FracLeq(Frac(MaxWidthPt, width), Frac(MaxHeightPt, height))
  THEN Frac(MaxHeightPt, height) ELSE Frac(MaxWidthPt, width)

\* Math.min(maxWidth / width, maxHeight / height) (line 476)
ImageScale(width, height) ==
  IF FracLeq(Frac(MaxWidthPt, width), Frac(MaxHeightPt, height))
  THEN Frac(MaxWidthPt, width) ELSE Frac(MaxHeightPt, height)

\* Lines 466-478.
PageSizeFor(width, height) ==
  IF width > MaxWidthPt \/ height > MaxHeightPt
  THEN [width |-> Times(width, ImageScale(width, height)),
        height |-> Times(height, ImageScale(width, height))]
  ELSE [width |-> Frac(width, 1), height |-> Frac(height, 1)]

\* Lines 480-486: the page is added and the image drawn over it.
AddImagePage ==
  /\ imagePage = NoPage
  /\ LET size == PageSizeFor(image.width, image.height)
     IN  imagePage' = [width |-> size.width, height |-> size.height,
                       draw |-> [x |-> 0, y |-> 0, width |-> size.width, height |-> size.height]]
  /\ UNCHANGED << coreVars, docVars, detectVars, laterVars, image >>

ImageWidths == {1, 100, 300, 594, MaxWidthPt, 596, 700, 1046, 1190, MaxPixels}
ImageHeights == {1, 200, 421, 841, MaxHeightPt, 843, 1000, MaxPixels}

ImageInit ==
  /\ RunInit
  /\ DetectIdle
  /\ LaterIdle
  /\ image \in [width : ImageWidths, height : ImageHeights]
  /\ imagePage = NoPage

ImageNext == AddImagePage

ImageSpec == ImageInit /\ [][ImageNext]_vars

\* ========================================================= addFieldsToPDF
\* The draw addFieldsToPDF makes for one field (lines 546-745): the page is
\* pages[field.fileIndex] (lines 543-558, field.pageNumber is not read), the
\* value must be non-empty (line 566) and the field have coordinates (line
\* 619); box and switch are the expressions of the inline loop (lines
\* 579-643, 648-741).
StandaloneOutcome(tagged, signer, pages) ==
  LET field == tagged.field
      v == signer.fieldValues[field.id]
      pageIndex == FileIdxOf(tagged)
  IN  IF pageIndex >= Len(pages) THEN NoDraw
      ELSE IF IsFalsy(v) THEN NoDraw
      ELSE IF ~HasCoordinates(field) THEN NoDraw
      ELSE RenderField(field.type, v)

StandaloneDraw(tagged, signer, pages) ==
  LET field == tagged.field
      page == pages[FileIdxOf(tagged) + 1]
      r == RenderField(field.type, signer.fieldValues[field.id])
      box == ResolveBox(field, page.width, page.height)
  IN  [page |-> FileIdxOf(tagged), signer |-> signer.email, field |-> field.id,
       fileIndex |-> tagged.fileIndex, pageNumber |-> field.pageNumber,
       op |-> r.op, content |-> r.content, box |-> box,
       params |-> DrawParams(field.type, r.op, box)]

\* The draws of one call over the first n fields, and whether it threw.
\* Grouping by fileIndex (lines 543-551) keeps the order of allFields, which
\* is already ordered by file.
RECURSIVE StandalonePass(_, _, _, _)
StandalonePass(fields, signer, pages, n) ==
  IF n = 0 THEN [made |-> <<>>, thrown |-> FALSE]
  ELSE LET before == StandalonePass(fields, signer, pages, n - 1)
           r == StandaloneOutcome(fields[n], signer, pages)
       IN  IF before.thrown THEN before
           ELSE IF r.thrown THEN [made |-> before.made, thrown |-> TRUE]
           ELSE IF r.drawn
                THEN [made |-> Append(before.made, StandaloneDraw(fields[n], signer, pages)),
                      thrown |-> FALSE]
           ELSE before

\* addFieldsToPDF(pdfDoc, documentData, signerData) (lines 501-751), called
\* with the merged document of a finished run for the next signed signer
\* that has field values.
AddFieldsToPDF ==
  /\ pc = "done"
  /\ ~standaloneError
  /\ standaloneFor < Len(signedSigners)
  /\ LET signer == signedSigners[standaloneFor + 1]
         out == StandalonePass(AllFields(documentData), signer, mergedPDF,
                               Len(AllFields(documentData)))
     IN  IF SignerHasData(signer)
         THEN /\ standalone' = standalone \o out.made
              /\ standaloneError' = out.thrown
         ELSE UNCHANGED << standalone, standaloneError >>
  /\ standaloneFor' = standaloneFor + 1
  /\ UNCHANGED << coreVars, docVars, detectVars, imageVars, hostVars, submitVars >>

CompareNext ==
  \/ pc = "idle" /\ (CallPaging \/ CallSigners \/ CallOrder)
  \/ AnalyzeFile
  \/ CheckValidFiles
  \/ ConvertFile
  \/ CheckPagesAndMap
  \/ SkipSigner
  \/ CompositeField
  \/ NextSigner
  \/ Finish
  \/ AddFieldsToPDF

CompareSpec == Init /\ [][CompareNext]_vars

\* ============================================================ host callers
\* generateCompletedDocument(documentData, signers) of index.js passes no
\* third argument: `bucket` is undefined in mergeDocumentsWithFields, and
\* bucket.file(fileName) at line 797 throws a TypeError for every file, inside
\* the try of line 796.
UndefinedBucket(held) == [name \in DOMAIN held |-> FetchFails]

\* signers.every(signer => signer.signed) (index.js line 2256); the status
\* 'completed' the download checks (line 3768) is set from it (line 2260).
AllSigned(signers) == \A si \in 1..Len(signers) : signers[si].signed

\* index.js lines 2264-2290: the submit that made every signer signed.
SubmitCompleted ==
  /\ hostPath = "submit"
  /\ AllSigned(hostSigners)
  /\ GenerateCompletedDocument(hostDocument, hostSigners, UndefinedBucket(storage))

\* index.js lines 3768-3783: the download of a completed document.
DownloadCompleted ==
  /\ hostPath = "download"
  /\ AllSigned(hostSigners)
  /\ GenerateCompletedDocument(hostDocument, FilterSigned(hostSigners),
                               UndefinedBucket(storage))

\* A caller that hands the bucket over (pdfService.js line 1094).
DirectCall ==
  /\ hostPath = "direct"
  /\ GenerateCompletedDocument(hostDocument, hostSigners, storage)

HostContents == { FetchFails, Stored("pdf", 1, 200, 400) }
HostSignerLists ==
  { OneSigner("txt", "txt"),
    << MkSigner(1, TRUE, TRUE, "txt", "undef"), MkSigner(2, TRUE, FALSE, "undef", "undef") >>,
    << MkSigner(1, TRUE, TRUE, "txt", "undef"), MkSigner(2, TRUE, TRUE, "undef", "imgok") >> }

HostInit ==
  /\ RunInit
  /\ DetectIdle
  /\ ImageIdle
  /\ StandaloneIdle
  /\ SubmitIdle
  /\ hostPath \in {"submit", "download", "direct"}
  /\ \E n \in 1..MaxFiles :
       /\ storage \in [1..n -> HostContents]
       /\ hostDocument = MkDoc(PagingFiles(n, 1, 1))
  /\ hostSigners \in HostSignerLists

HostNext ==
  \/ SubmitCompleted
  \/ DownloadCompleted
  \/ DirectCall
  \/ AnalyzeFile
  \/ CheckValidFiles
  \/ ConvertFile
  \/ CheckPagesAndMap
  \/ SkipSigner
  \/ CompositeField
  \/ NextSigner
  \/ Finish

HostSpec == HostInit /\ [][HostNext]_vars

\* ======================================================= signature submit
\* POST /api/sign/:documentId/submit (index.js 2235-2350).  A request is
\* suspended at each await: docRef.get() (line 2241), docRef.update() (line
\* 2276), and the awaits of the completion mail.  Requests of different
\* signers run interleaved between those points.

\* Lines 2250-2261: the signer of the request is replaced, the others kept.
UpdatedSigners(signers, signerEmail, fieldValues) ==
  [si \in 1..Len(signers) |->
     IF signers[si].email = signerEmail
     THEN [signers[si] EXCEPT !.signed = TRUE, !.fieldValues = fieldValues]
     ELSE signers[si]]

\* What a request leaves alone.
SubmitFrame ==
  UNCHANGED << coreVars, docVars, detectVars, imageVars, standaloneVars, hostVars >>

\* Lines 2238-2248: the body is read and the document fetched.
SubmitGet(r) ==
  /\ submits[r].at = "get"
  /\ submits' = [submits EXCEPT ![r] =
       IF documents.exists
       THEN [@ EXCEPT !.at = "update", !.documentData = documents]
       ELSE [@ EXCEPT !.at = "answered", !.answer = 404]]
  /\ UNCHANGED documents
  /\ SubmitFrame

\* Lines 2250-2276: the update writes the whole signers array and the status
\* computed from the document as it was fetched.
SubmitUpdate(r) ==
  /\ submits[r].at = "update"
  /\ LET updatedSigners == UpdatedSigners(submits[r].documentData.signers,
                                          submits[r].signerEmail, submits[r].fieldValues)
         allSigned == AllSigned(updatedSigners)
     IN  /\ documents' = [documents EXCEPT
                            !.signers = updatedSigners,
                            !.status = IF allSigned THEN "completed" ELSE "partially_signed"]
         /\ submits' = [submits EXCEPT ![r] = [@ EXCEPT !.at = "respond", !.allSigned = allSigned]]
  /\ SubmitFrame

\* Lines 2278-2344: the completion mail, whose failure is only logged, and
\* the answer.
SubmitRespond(r) ==
  /\ submits[r].at = "respond"
  /\ submits' = [submits EXCEPT ![r] = [@ EXCEPT !.at = "answered", !.answer = 200]]
  /\ UNCHANGED documents
  /\ SubmitFrame

\* A stored signer, before any of the requests: unsigned, or signed earlier.
StoredSigner(email, signed) ==
  [email |-> email, signed |-> signed, fieldValues |-> IF signed THEN "earlier" ELSE "none"]

StoredDocuments ==
  { NoRecord } \cup
  { [exists |-> TRUE,
     signers |-> [si \in 1..n |-> StoredSigner(si, signed[si])],
     status |-> IF \E si \in 1..n : signed[si] THEN "partially_signed" ELSE "pending"] :
      n \in 2..MaxSigners, signed \in [1..MaxSigners -> BOOLEAN] }

SubmitRequest(email, values) ==
  [at |-> "get", signerEmail |-> email, fieldValues |-> values,
   documentData |-> NoRecord, allSigned |-> FALSE, answer |-> 0]

SubmitInit ==
  /\ RunInit
  /\ DetectIdle
  /\ ImageIdle
  /\ StandaloneIdle
  /\ HostIdle
  /\ documents \in { d \in StoredDocuments :
                       ~ d.exists \/ \E si \in 1..Len(d.signers) : ~ d.signers[si].signed }
  /\ \E first \in 1..MaxSigners, second \in 1..MaxSigners :
       submits = << SubmitRequest(first, "first"), SubmitRequest(second, "second") >>

SubmitNext ==
  \/ \E r \in DOMAIN submits : SubmitGet(r)
  \/ \E r \in DOMAIN submits : SubmitUpdate(r)
  \/ \E r \in DOMAIN submits : SubmitRespond(r)

SubmitSpec == SubmitInit /\ [][SubmitNext]_vars

\* ================================================================ docToPDF
\* Lengths of this part are whole PDF points.
MaxLines == 57
StartY == 800
Margin == 50
LineHeight == 14
ExtractedLines == 15

\* Lines 131-144: the catch of the render tier starts the text-layout tier,
\* the catch of the text-layout tier starts the diagnostic tier, and what the
\* diagnostic tier throws leaves docToPDF.
AfterThrow_SkipLayout(tier) ==
  IF tier \in {"render", "layout"} THEN "diagnostic" ELSE "thrown"

AfterThrow(tier) ==
  IF tier = "render" THEN "layout"
  ELSE IF tier = "layout" THEN "diagnostic"
  ELSE "thrown"

\* A tier of docToPDF ends: `return await` hands its result out (lines 133,
\* 139, 142), a throw moves to the catch.
TierEnds(tier, outcome, res) ==
  /\ tiers' = Append(tiers, [tier |-> tier, outcome |-> outcome])
  /\ IF outcome = "returned"
     THEN docPc' = "returned" /\ docResult' = res
     ELSE docPc' = AfterThrow(tier) /\ UNCHANGED docResult

\* Line 128: docToPDF is called; the render tier starts (line 133).
DocToPDF(buf) ==
  /\ docPc = "idle"
  /\ docPc' = "render"
  /\ docBuffer' = buf
  /\ UNCHANGED << runVars, tiers, docResult, layoutVars >>

\* Line 154: mammoth.convertToHtml.
ConvertToHtml ==
  /\ docPc = "render"
  /\ IF docBuffer.html = "throws"
     THEN TierEnds("render", "threw", "none")
     ELSE docPc' = "nodeHtml" /\ UNCHANGED << tiers, docResult >>
  /\ UNCHANGED << runVars, docBuffer, layoutVars >>

\* Lines 204-221: node-html-to-image.
NodeHtmlToImage ==
  /\ docPc = "nodeHtml"
  /\ docPc' = IF docBuffer.nodeHtml = "ok" THEN "imagePdf" ELSE "canvas"
  /\ UNCHANGED << runVars, docBuffer, tiers, docResult, layoutVars >>

\* Lines 225-232: the canvas renderer, then the throw of line 232.
HtmlToImageWithCanvas ==
  /\ docPc = "canvas"
  /\ IF docBuffer.canvas = "throws"
     THEN TierEnds("render", "threw", "none")
     ELSE docPc' = "imagePdf" /\ UNCHANGED << tiers, docResult >>
  /\ UNCHANGED << runVars, docBuffer, layoutVars >>

\* Lines 193-196: imageToPDF on the rendered image.
ImageToPDF ==
  /\ docPc = "imagePdf"
  /\ IF docBuffer.imagePdf = "throws"
     THEN TierEnds("render", "threw", "none")
     ELSE TierEnds("render", "returned", [kind |-> "image", pages |-> 1, extracted |-> 0])
  /\ UNCHANGED << runVars, docBuffer, layoutVars >>

\* Lines 300-315: extract the raw text, create the document and its first page.
ExtractRawText ==
  /\ docPc = "layout"
  /\ IF docBuffer.extract = "throws"
     THEN /\ TierEnds("layout", "threw", "none")
          /\ UNCHANGED layoutVars
     ELSE /\ docPc' = "lines"
          /\ pageCount' = 1
          /\ yPosition' = StartY
          /\ lineNo' = 0
          /\ placed' = <<>>
          /\ UNCHANGED << tiers, docResult >>
  /\ UNCHANGED << runVars, docBuffer >>

\* Lines 317-341: one turn of the loop over the lines. `page` is the first
\* page throughout; a new page receives only the line that overflowed.
LayoutLine ==
  /\ docPc = "lines"
  /\ lineNo < docBuffer.lines
  /\ lineNo' = lineNo + 1
  /\ LET newPage == yPosition < Margin
         y == IF newPage THEN StartY ELSE yPosition
         pages == IF newPage THEN pageCount + 1 ELSE pageCount
     IN  /\ pageCount' = pages
         /\ IF lineNo + 1 = docBuffer.badLine
            THEN /\ TierEnds("layout", "threw", "none")               \* drawText throws
                 /\ UNCHANGED << yPosition, placed >>
            ELSE /\ placed' = Append(placed, [line |-> lineNo + 1,
                                              page |-> IF newPage THEN pages ELSE 1,
                                              y |-> y, newest |-> pages])
                 /\ yPosition' = y - LineHeight
                 /\ UNCHANGED << docPc, tiers, docResult >>
  /\ UNCHANGED << runVars, docBuffer >>

\* Lines 343-345: save and return.
LayoutSave ==
  /\ docPc = "lines"
  /\ lineNo = docBuffer.lines
  /\ TierEnds("layout", "returned", [kind |-> "text", pages |-> pageCount, extracted |-> lineNo])
  /\ UNCHANGED << runVars, docBuffer, layoutVars >>

\* Lines 351-423 without the try of line 386: what extraction or a draw of
\* an extracted line throws leaves the tier.
DiagnosticOutcome_NoCatch(buf) ==
  IF buf.extractAgain = "throws" THEN [threw |-> TRUE, extracted |-> 0]
  ELSE IF buf.blank THEN [threw |-> FALSE, extracted |-> 0]
  ELSE IF buf.badLine \in 1..Min(ExtractedLines, buf.lines)
       THEN [threw |-> TRUE, extracted |-> buf.badLine - 1]
  ELSE [threw |-> FALSE, extracted |-> Min(ExtractedLines, buf.lines)]

\* Lines 351-423: the notice is drawn from fixed text; extraction and the
\* draws of the first 15 extracted lines sit in the try of line 386, whose
\* catch only logs. The notice ends at y = 550 and the extracted lines start
\* at y = 500 with 12pt spacing, so the `yPosition < 50` break never happens.
DiagnosticOutcome(buf) ==
  IF buf.extractAgain = "throws" THEN [threw |-> FALSE, extracted |-> 0]
  ELSE IF buf.blank THEN [threw |-> FALSE, extracted |-> 0]
  ELSE IF buf.badLine \in 1..Min(ExtractedLines, buf.lines)
       THEN [threw |-> FALSE, extracted |-> buf.badLine - 1]
  ELSE [threw |-> FALSE, extracted |-> Min(ExtractedLines, buf.lines)]

\* Lines 351-423: docToPDFTextFallback.
DocToPDFTextFallback ==
  /\ docPc = "diagnostic"
  /\ LET out == DiagnosticOutcome(docBuffer)
     IN  IF out.threw
         THEN TierEnds("diagnostic", "threw", "none")
         ELSE TierEnds("diagnostic", "returned",
                       [kind |-> "notice", pages |-> 1, extracted |-> out.extracted])
  /\ UNCHANGED << runVars, docBuffer, layoutVars >>

\* The documents docToPDF is called with: each library call works or throws;
\* the text has up to MaxLines lines, is blank or not, and at most one of
\* its lines cannot be drawn in Helvetica.
Outcomes == {"ok", "throws"}
LineCounts == {1, 3, 16, 55, MaxLines}
BadLines == {0, 1, 3, 16}

Buffers ==
  { buf \in [html : Outcomes, nodeHtml : Outcomes, canvas : Outcomes, imagePdf : Outcomes,
             extract : Outcomes, extractAgain : Outcomes, lines : LineCounts,
             badLine : BadLines, blank : BOOLEAN] :
      /\ buf.badLine <= buf.lines
      /\ buf.blank => buf.badLine = 0 }

DocCall == \E buf \in Buffers : DocToPDF(buf)

DocNext ==
  \/ DocCall
  \/ ConvertToHtml
  \/ NodeHtmlToImage
  \/ HtmlToImageWithCanvas
  \/ ImageToPDF
  \/ ExtractRawText
  \/ LayoutLine
  \/ LayoutSave
  \/ DocToPDFTextFallback

DocSpec == Init /\ [][DocNext]_vars

\* ================================================================ properties
\* What the inputs say, stated without the merge state.
ContentOf(fileIndex) == bucket[FilesOf(documentData)[fileIndex + 1].fileName]

FileSkipped(content) ==
  content.fetch = "throws" \/ content.type = "unknown" \/ ~content.loads

FilePages(content) ==
  IF FileSkipped(content) THEN 0
  ELSE IF content.type = "image" THEN 1 ELSE content.pages

RECURSIVE ExpectedFrom(_)
ExpectedFrom(fileIndex) ==
  IF fileIndex >= Len(FilesOf(documentData)) THEN <<>>
  ELSE [p \in 1..FilePages(ContentOf(fileIndex)) |-> << fileIndex, p >>]
         \o ExpectedFrom(fileIndex + 1)

\* The pages of the files that were not skipped: files in input order, each
\* file's pages in page order.
ExpectedPages == ExpectedFrom(0)

MergedOrigins == [g \in 1..Len(mergedPDF) |-> << mergedPDF[g].file, mergedPDF[g].pageNo >>]

SomeFileSkipped ==
  \E f \in 0..(Len(FilesOf(documentData)) - 1) : FileSkipped(ContentOf(f))
SomeFileKept ==
  \E f \in 0..(Len(FilesOf(documentData)) - 1) : ~FileSkipped(ContentOf(f))

\* The merge phase (lines 791-890) is over.
MergeEnded == pc \in {"fields", "done"} \/ (pc = "failed" /\ error # "NoSignedData")
MergeThrew == pc = "failed" /\ error \in {"NoSupportedFiles", "NoValidPages"}

DrawsOf(email, id) ==
  { j \in DOMAIN draws : draws[j].signer = email /\ draws[j].field = id }

\* A field whose value the compositor is to draw: the signer has data, the
\* value is non-empty, the field has coordinates and a known type, and the
\* value is one the type draws.
Drawable(signer, field) ==
  /\ signer.signed /\ signer.hasFieldValues
  /\ ~IsFalsy(signer.fieldValues[field.id])
  /\ HasCoordinates(field)
  /\ field.type \in KnownTypes
  /\ RenderField(field.type, signer.fieldValues[field.id]).drawn

\* C1: when the run has returned, every drawable field whose owning file
\* (by its index in documentData.files) was merged and whose pageNumber lies
\* within that file's page count has exactly one draw per signer, and that
\* draw is on the merged page copied from that file's pageNumber-th page.
C1_FieldOnOwnPage ==
  pc = "done" =>
    \A si \in 1..Len(signersData), fi \in 1..Len(AllFields(documentData)) :
      LET signer == signersData[si]
          tagged == AllFields(documentData)[fi]
          field  == tagged.field
          c      == ContentOf(tagged.fileIndex)
      IN  ( /\ Drawable(signer, field)
            /\ ~FileSkipped(c)
            /\ field.pageNumber \in 1..FilePages(c) )
          => /\ Cardinality(DrawsOf(signer.email, field.id)) = 1
             /\ \A j \in DrawsOf(signer.email, field.id) :
                  /\ mergedPDF[draws[j].page + 1].file = tagged.fileIndex
                  /\ mergedPDF[draws[j].page + 1].pageNo = field.pageNumber

\* C2: no draw belongs to a field anchored to a skipped file.
C2_SkippedFileNotDrawn ==
  \A j \in DOMAIN draws : ~FileSkipped(ContentOf(draws[j].fileIndex))

KeyBefore(k1, k2) == k1[1] < k2[1] \/ (k1[1] = k2[1] /\ k1[2] < k2[2])

\* C3: once built, the PageMap has exactly the keys (f, p) with f a merged
\* file and 1 <= p <= its page count, maps them one-to-one onto
\* 0 .. sum(pages) - 1, and increases with file order, then page order.
C3_PageMapBijective ==
  pc \in {"fields", "done"} =>
    LET keys == DOMAIN filePageToGlobalPage
        total == SumSeq(filePagesList)
    IN  /\ \A f \in 0..(Len(filePagesList) - 1) : \A p \in 1..filePagesList[f + 1] :
             << f, p >> \in keys
        /\ \A key \in keys : filePageToGlobalPage[key] \in 0..(total - 1)
        /\ \A k1, k2 \in keys : k1 # k2 => filePageToGlobalPage[k1] # filePageToGlobalPage[k2]
        /\ \A g \in 0..(total - 1) : \E key \in keys : filePageToGlobalPage[key] = g
        /\ \A k1, k2 \in keys :
             KeyBefore(k1, k2) => filePageToGlobalPage[k1] < filePageToGlobalPage[k2]
        /\ total = Len(mergedPDF)

C3_Witness ==
  /\ pc = "done"
  /\ Len(filePagesList) >= 2
  /\ \E f \in 1..Len(filePagesList) : filePagesList[f] >= 2
  /\ \E f \in 2..Len(filePagesList) : filePageStartIndices[f] >= 2

\* C4 as claimed: whenever some but not all files are skipped, the merge
\* does not throw and the merged pages are exactly the kept files' pages.
C4_Original ==
  (MergeEnded /\ SomeFileSkipped /\ SomeFileKept) =>
     (~MergeThrew /\ MergedOrigins = ExpectedPages)

\* C4 (amended): whenever some but not all files are skipped and the kept
\* files have at least one page between them, the merge does not throw and
\* the merged document holds exactly the kept files' pages, files in input
\* order and each file's pages contiguous and in page order.
C4_SkipNotAbort ==
  (MergeEnded /\ SomeFileSkipped /\ SomeFileKept /\ ExpectedPages # <<>>) =>
     (~MergeThrew /\ MergedOrigins = ExpectedPages)

C4_Witness ==
  /\ pc = "done"
  /\ Len(FilesOf(documentData)) = 3
  /\ FileSkipped(ContentOf(1))
  /\ ~FileSkipped(ContentOf(0)) /\ ~FileSkipped(ContentOf(2))
  /\ Len(mergedPDF) >= 3


SomeSignerSigned == \E si \in 1..Len(signersData) : signersData[si].signed

\* C5 as claimed: once a signer has signed and a file contributes a page,
\* the run ends by returning a PDF, whatever the fields and values are.
C5_NoFieldAborts ==
  (pc \in {"done", "failed"} /\ SomeSignerSigned /\ ExpectedPages # <<>>) => pc = "done"

\* C6: a returned PDF has at least one page; when the inputs yield no page
\* the run never gets past the merge and ends in the no-files / no-pages
\* error; and that error is raised only with zero merged pages.
C6_ZeroPagesThrows ==
  /\ pc = "done" => result > 0
  /\ (ExpectedPages = <<>> /\ SomeSignerSigned) => pc \notin {"fields", "done"}
  /\ (pc = "failed" /\ ExpectedPages = <<>> /\ SomeSignerSigned) => MergeThrew
  /\ MergeThrew => (totalPages = 0 /\ mergedPDF = <<>> /\ ExpectedPages = <<>>)

C6_Witness ==
  /\ pc = "failed" /\ error = "NoValidPages"
  /\ Len(FilesOf(documentData)) >= 2
  /\ \E f \in 0..(Len(FilesOf(documentData)) - 1) :
       ContentOf(f).fetch = "ok" /\ ContentOf(f).type = "pdf"

\* C7: when no signer of the list is signed (the empty list included) the
\* call fails with the no-signed-data error, and nothing was downloaded,
\* merged or drawn.
C7_NoSignedData ==
  (pc # "idle" /\ ~SomeSignerSigned) =>
     /\ pc = "failed" /\ error = "NoSignedData"
     /\ downloads = <<>> /\ processedFiles = <<>>
     /\ mergedPDF = <<>> /\ draws = <<>>

C7_Witness ==
  /\ pc = "failed" /\ error = "NoSignedData"
  /\ Len(signersData) = 2
  /\ signersData[1].hasFieldValues /\ signersData[1].fieldValues["f1"] = "txt"
  /\ ~FileSkipped(ContentOf(0))

\* C8: every draw originates from a signer of the list with signed = TRUE.
C8_OnlySignedDrawn ==
  \A j \in DOMAIN draws :
    \E si \in 1..Len(signersData) :
      signersData[si].email = draws[j].signer /\ signersData[si].signed

C8_Witness ==
  /\ pc = "done"
  /\ Len(signersData) = 2
  /\ ~signersData[1].signed /\ signersData[1].hasFieldValues
  /\ signersData[1].fieldValues["f1"] = "txt"
  /\ signersData[2].signed
  /\ draws # <<>>

\* The field a draw belongs to (field ids are unique within a document).
FieldOfDraw(j) ==
  (CHOOSE t \in { AllFields(documentData)[fi] : fi \in 1..Len(AllFields(documentData)) } :
     t.field.id = draws[j].field).field

PageOfDraw(j) == mergedPDF[draws[j].page + 1]

PctInRange(field) ==
  /\ field.form = "pct"
  /\ field.leftPercent \in 0..100 /\ field.topPercent \in 0..100
  /\ field.widthPercent \in 0..100 /\ field.heightPercent \in 0..100

\* x = L/100*W, x + width = (L+Wp)/100*W, H - y - height = T/100*H,
\* in hundredths of a point.
RoundTrips(box, field, page) ==
  /\ box.x = field.leftPercent * page.width
  /\ box.x + box.width = (field.leftPercent + field.widthPercent) * page.width
  /\ (100 * page.height) - box.y - box.height = field.topPercent * page.height

\* C9 as claimed: the drawn box of every percentage field with all four
\* percentages in [0,100] round-trips the top-left semantics.
C9_Original ==
  \A j \in DOMAIN draws :
    PctInRange(FieldOfDraw(j)) => RoundTrips(draws[j].box, FieldOfDraw(j), PageOfDraw(j))

\* C9 (amended): the drawn box of every percentage field with all four
\* percentages in [0,100], left + width <= 100 and top + height <= 100
\* round-trips the top-left semantics.
C9_RoundTrip ==
  \A j \in DOMAIN draws :
    ( /\ PctInRange(FieldOfDraw(j))
      /\ FieldOfDraw(j).leftPercent + FieldOfDraw(j).widthPercent <= 100
      /\ FieldOfDraw(j).topPercent + FieldOfDraw(j).heightPercent <= 100 )
    => RoundTrips(draws[j].box, FieldOfDraw(j), PageOfDraw(j))

C9_Witness ==
  \E j \in DOMAIN draws :
    /\ PctInRange(FieldOfDraw(j))
    /\ FieldOfDraw(j).leftPercent = 30 /\ FieldOfDraw(j).widthPercent = 70
    /\ FieldOfDraw(j).topPercent = 70 /\ FieldOfDraw(j).heightPercent = 30
    /\ PageOfDraw(j).width = 600
    /\ draws[j].box = [x |-> 18000, y |-> 0, width |-> 42000, height |-> 24000]

OnPage(box, page) ==
  /\ 0 <= box.x
  /\ 0 <= box.y
  /\ box.x + box.width <= 100 * page.width
  /\ box.y + box.height <= 100 * page.height

\* C10: every drawn box lies on its page, and a field with coordinates on
\* a resolvable page is drawn whatever its position and size are.
C10_ClampedOnPage ==
  /\ \A j \in DOMAIN draws : OnPage(draws[j].box, PageOfDraw(j))
  /\ pc = "done" =>
       \A si \in 1..Len(signersData), fi \in 1..Len(AllFields(documentData)) :
         LET tagged == AllFields(documentData)[fi]
         IN  ( /\ Drawable(signersData[si], tagged.field)
               /\ << tagged.fileIndex, PageNumOf(tagged.field) >> \in DOMAIN filePageToGlobalPage )
             => DrawsOf(signersData[si].email, tagged.field.id) # {}

\* The box before the bounds test.
RawBox(field, page) ==
  IF field.form = "pct" THEN PercentBox(field, page.width, page.height)
  ELSE PixelBox(field, page.width, page.height)

C10_Witness ==
  /\ pc = "done"
  /\ \E j \in DOMAIN draws :
       /\ RawBox(FieldOfDraw(j), PageOfDraw(j)).width > 100 * PageOfDraw(j).width
       /\ RawBox(FieldOfDraw(j), PageOfDraw(j)).y < 0
       /\ draws[j].box.width = 100 * PageOfDraw(j).width
       /\ draws[j].box.y = 0

\* C11: a computed box that lies on the page is drawn unchanged, and the
\* clamp step applied to a drawn box gives the same box again.
C11_ClampIdempotent ==
  \A j \in DOMAIN draws :
    /\ OnPage(RawBox(FieldOfDraw(j), PageOfDraw(j)), PageOfDraw(j))
         => draws[j].box = RawBox(FieldOfDraw(j), PageOfDraw(j))
    /\ ClampBox(draws[j].box, PageOfDraw(j).width, PageOfDraw(j).height) = draws[j].box

C11_Witness ==
  \E j \in DOMAIN draws :
    /\ FieldOfDraw(j).form = "px"
    /\ RawBox(FieldOfDraw(j), PageOfDraw(j)).x > 0
    /\ RawBox(FieldOfDraw(j), PageOfDraw(j)).y > 0
    /\ RawBox(FieldOfDraw(j), PageOfDraw(j)).width > 0
    /\ OnPage(RawBox(FieldOfDraw(j), PageOfDraw(j)), PageOfDraw(j))
    /\ draws[j].box = RawBox(FieldOfDraw(j), PageOfDraw(j))

\* The page of a field is in the PageMap.
Resolvable(tagged) ==
  << tagged.fileIndex, PageNumOf(tagged.field) >> \in DOMAIN filePageToGlobalPage

\* Signer si carries value v for the checkbox / signature field fi, which
\* has coordinates and a page in the PageMap.
FieldCase(si, fi, types, v) ==
  LET tagged == AllFields(documentData)[fi]
  IN  /\ signersData[si].signed /\ signersData[si].hasFieldValues
      /\ tagged.field.type \in types
      /\ HasCoordinates(tagged.field)
      /\ Resolvable(tagged)
      /\ signersData[si].fieldValues[tagged.field.id] = v

DrawsOfCase(si, fi) ==
  DrawsOf(signersData[si].email, AllFields(documentData)[fi].field.id)

\* C12: in a returned document a checkbox valued true or "true" has exactly
\* one draw, a mark; one valued false, "false", undefined or "" has none.
C12_CheckboxSemantics ==
  pc = "done" =>
    \A si \in 1..Len(signersData), fi \in 1..Len(AllFields(documentData)) :
      /\ \A v \in {"true", "strtrue"} :
           FieldCase(si, fi, {"checkbox"}, v) =>
             /\ Cardinality(DrawsOfCase(si, fi)) = 1
             /\ \A j \in DrawsOfCase(si, fi) : draws[j].op = "mark" /\ draws[j].content = "X"
      /\ \A v \in {"false", "strfalse", "undef", "empty"} :
           FieldCase(si, fi, {"checkbox"}, v) => DrawsOfCase(si, fi) = {}

C12_Witness ==
  /\ pc = "done"
  /\ \E si \in 1..Len(signersData), fi \in 1..Len(AllFields(documentData)) :
       /\ FieldCase(si, fi, {"checkbox"}, "strtrue")
       /\ Cardinality(DrawsOfCase(si, fi)) = 1

\* C13: a signature or initial field whose data-URI payload cannot be
\* embedded never makes the run fail: it gets exactly one draw, the text
\* "Signed" (signature) or "Initialed" (initial), and the fields after it
\* are still composited.
C13_SignatureFallback ==
  /\ (pc = "failed" /\ error = "FieldError") =>
       LET thrower == AllFields(documentData)[k].field
       IN  ~( /\ thrower.type \in SignTypes
              /\ signedSigners[s + 1].fieldValues[thrower.id] = "imgbad" )
  /\ pc = "done" =>
       \A si \in 1..Len(signersData), fi \in 1..Len(AllFields(documentData)) :
         FieldCase(si, fi, SignTypes, "imgbad") =>
           /\ Cardinality(DrawsOfCase(si, fi)) = 1
           /\ \A j \in DrawsOfCase(si, fi) :
                /\ draws[j].op = "fallback"
                /\ draws[j].content =
                     (IF AllFields(documentData)[fi].field.type = "initial"
                      THEN "Initialed" ELSE "Signed")
           /\ \A fj \in (fi + 1)..Len(AllFields(documentData)) :
                ( /\ Drawable(signersData[si], AllFields(documentData)[fj].field)
                  /\ Resolvable(AllFields(documentData)[fj]) )
                => DrawsOfCase(si, fj) # {}

C13_Witness ==
  /\ pc = "done"
  /\ \E si \in 1..Len(signersData) :
       /\ FieldCase(si, 1, {"initial"}, "imgbad")
       /\ \E j \in DrawsOfCase(si, 1) : draws[j].content = "Initialed"
       /\ DrawsOfCase(si, 2) # {}

\* The draw a signer's value for a field gives, from the inputs and the PageMap.
ExpectedDraw(signer, tagged) ==
  LET field == tagged.field
      g == filePageToGlobalPage[<< tagged.fileIndex, PageNumOf(field) >>]
      r == RenderField(field.type, signer.fieldValues[field.id])
  IN  [page |-> g, signer |-> signer.email, field |-> field.id,
       fileIndex |-> tagged.fileIndex, pageNumber |-> field.pageNumber,
       op |-> r.op, content |-> r.content,
       box |-> ResolveBox(field, mergedPDF[g + 1].width, mergedPDF[g + 1].height),
       params |-> DrawParams(field.type, r.op,
                             ResolveBox(field, mergedPDF[g + 1].width, mergedPDF[g + 1].height))]

SignerSet == { signersData[si] : si \in 1..Len(signersData) }
TaggedSet == { AllFields(documentData)[fi] : fi \in 1..Len(AllFields(documentData)) }

DrawSet == { draws[j] : j \in DOMAIN draws }

\* C14: the draws of a returned document, taken as a set (page, box and
\* content), are those of every signer's drawable fields and depend on the
\* set of signers only, not on their order in the list; so both signers'
\* draws are present and [A, B] and [B, A] give the same draws on every page.
C14_OrderIndependent ==
  pc = "done" =>
    DrawSet = { ExpectedDraw(signer, tagged) :
                  << signer, tagged >> \in
                     { st \in SignerSet \X TaggedSet :
                         Drawable(st[1], st[2].field) /\ Resolvable(st[2]) } }

C14_Witness ==
  /\ pc = "done"
  /\ Len(signersData) = 2
  /\ signersData[1].email = 2 /\ signersData[2].email = 1
  /\ signersData[1].fieldValues["f1"] = "undef"
  /\ \E j1, j2 \in DOMAIN draws :
       /\ draws[j1].signer = 2 /\ draws[j1].field = "f2"
       /\ draws[j2].signer = 1 /\ draws[j2].field = "f1"
       /\ draws[j1].page = draws[j2].page
       /\ j1 < j2

\* C18: the returned filename is the title stamped into the metadata of the
\* document followed by "-signed.pdf", whether title and originalName are
\* present or not.
C18_FilenameMatchesTitle ==
  pc = "done" => filename = << title, "-signed.pdf" >>

\* Where C18 does hold: title or originalName is present.
C18_NamedDocument ==
  (pc = "done" /\ TitleOr(documentData, "") # "") => filename = << title, "-signed.pdf" >>

\* ------------------------------------------------------------ docToPDF
TiersOf == [t \in 1..Len(tiers) |-> tiers[t].tier]
TierOrder == << "render", "layout", "diagnostic" >>
PdfResults == [kind : {"image", "text", "notice"}, pages : 1..MaxLines, extracted : 0..MaxLines]

\* C15: docToPDF never throws and, once ended, has returned a PDF, whatever
\* the render tier, the text-layout tier and the extraction in the
\* diagnostic tier do.
C15_AlwaysPdf ==
  /\ docPc # "thrown"
  /\ docPc = "returned" => docResult \in PdfResults
  /\ (Len(tiers) = 3 /\ tiers[3].tier = "diagnostic") => docPc = "returned"

C15_Witness ==
  /\ docPc = "returned"
  /\ docResult.kind = "notice"
  /\ docBuffer.extractAgain = "throws"
  /\ Len(tiers) = 3 /\ tiers[1].outcome = "threw" /\ tiers[2].outcome = "threw"

\* C19: every line the text-layout tier draws is on the page created last,
\* not below the margin, and no two lines are drawn at the same place of the
\* same page.
C19_LayoutOnNewestPage ==
  /\ \A a \in DOMAIN placed : placed[a].page = placed[a].newest /\ placed[a].y >= Margin
  /\ \A a, b \in DOMAIN placed :
       a # b => << placed[a].page, placed[a].y >> # << placed[b].page, placed[b].y >>

\* What C19 says holds while the text fits on one page.
C19_OnePage ==
  pageCount <= 1 => C19_LayoutOnNewestPage

\* C20: the tiers run in the order render, text-layout, diagnostic; a tier
\* runs only after every tier before it has thrown, and the result is that of
\* the first tier that did not throw.
C20_TierOrder ==
  /\ Len(tiers) <= 3
  /\ \A t \in 1..Len(tiers) :
       /\ tiers[t].tier = TierOrder[t]
       /\ t < Len(tiers) => tiers[t].outcome = "threw"
  /\ docPc = "layout" => TiersOf = << "render" >>
  /\ docPc = "diagnostic" => TiersOf = << "render", "layout" >>
  /\ docPc = "returned" =>
       /\ tiers[Len(tiers)].outcome = "returned"
       /\ docResult.kind = CASE Len(tiers) = 1 -> "image"
                             [] Len(tiers) = 2 -> "text"
                             [] OTHER -> "notice"

C20_Witness ==
  /\ docPc = "returned"
  /\ TiersOf = << "render", "layout" >>
  /\ docResult.kind = "text"
  /\ docBuffer.extractAgain = "throws"

\* ------------------------------------------------------------ termination
RunStarted == pc \in {"analyze", "convert", "fields"}
RunEnded == pc \in {"done", "failed"}

\* C16: a run that has started eventually returns or throws, also when a
\* download never answers.
C16_RunCompletes == RunStarted ~> RunEnded

\* A run all of whose downloads answer does end.
C16_AnsweredRunCompletes ==
  (RunStarted /\ \A f \in 1..Len(bucket) : bucket[f].fetch # "hangs") ~> RunEnded

\* ------------------------------------------------------------ concurrency
\* The first caller's invocation, running or waiting.
FirstRun == IF active = 1 THEN Frame ELSE suspended
SecondRun == IF active = 2 THEN Frame ELSE suspended

Affected(tagged) ==
  \/ ~HasCoordinates(tagged.field)
  \/ ~Resolvable(tagged)
  \/ tagged.field.type \notin KnownTypes

NotAffected(tagged) == ~Affected(tagged)

\* The fields of the document as if the affected ones did not exist.
RemainingFields == SelectSeq(AllFields(documentData), NotAffected)

\* How many of the first n fields remain.
RemainingUpTo(n) == Cardinality({ fi \in 1..n : NotAffected(AllFields(documentData)[fi]) })

\* The draws one signer's pass over the first n of the given fields makes.
RECURSIVE PassDraws(_, _, _)
PassDraws(signer, fields, n) ==
  IF n = 0 THEN <<>>
  ELSE PassDraws(signer, fields, n - 1) \o
       (IF Drawable(signer, fields[n].field)
        THEN << ExpectedDraw(signer, fields[n]) >> ELSE <<>>)

\* The draws of the first sn signers' passes over the given fields.
RECURSIVE PassesDraws(_, _)
PassesDraws(fields, sn) ==
  IF sn = 0 THEN <<>>
  ELSE PassesDraws(fields, sn - 1) \o PassDraws(signedSigners[sn], fields, Len(fields))

Compositing == pc \in {"fields", "done"} \/ (pc = "failed" /\ error = "FieldError")

\* C21: a field without coordinates, without a page in the PageMap or of an
\* unknown type gives no draw and no error, and the draws made so far are
\* those of the document without the affected fields, in the same order.
C21_SkippedFieldsInert ==
  Compositing =>
    /\ draws = PassesDraws(RemainingFields, s) \o
               (IF s < Len(signedSigners)
                THEN PassDraws(signedSigners[s + 1], RemainingFields, RemainingUpTo(k))
                ELSE <<>>)
    /\ \A j \in DOMAIN draws :
         \A fi \in 1..Len(AllFields(documentData)) :
           (AllFields(documentData)[fi].field.id = draws[j].field
              /\ AllFields(documentData)[fi].fileIndex = draws[j].fileIndex)
           => NotAffected(AllFields(documentData)[fi])
    /\ (pc = "failed" /\ error = "FieldError") => NotAffected(AllFields(documentData)[k])

C21_Witness ==
  /\ pc = "done"
  /\ Len(signedSigners) = 2
  /\ Len(AllFields(documentData)) = 2
  /\ AllFields(documentData)[1].field.type = "other"
  /\ signedSigners[1].fieldValues["f1"] = "txtbad"
  /\ Len(draws) = 2
  /\ draws[1].signer = 1 /\ draws[1].field = "f2"
  /\ draws[2].signer = 2 /\ draws[2].field = "f2" /\ draws[2].op = "image"

\* ------------------------------------------------------ detectImageFormat
\* The format whose signature the leading bytes of the buffer carry.
SignatureOf(bytes) == MagicFormat(bytes)

\* C22: a buffer whose leading bytes carry a signature gets that format,
\* whatever the file name says and however short the buffer is.
C22_SignatureFirst ==
  (format # "pending" /\ SignatureOf(buffer) # "none") => format = SignatureOf(buffer)

\* What C22 says holds for buffers of at least 16 bytes.
C22_LongBuffers ==
  (format # "pending" /\ Len(buffer) >= HeaderSize /\ SignatureOf(buffer) # "none")
    => format = SignatureOf(buffer)

\* ------------------------------------------------------------- imageToPDF
FitsA4(img) == img.width <= MaxWidthPt /\ img.height <= MaxHeightPt

IsPrefix(a, b) == Len(a) <= Len(b) /\ a = SubSeq(b, 1, Len(a))

\* C24: while and after the signers' passes the merged document has the
\* pages it had right after merging, in the same order, as many as the
\* merged files have together; every step of a pass leaves the pages alone
\* and only adds to the draws made before.
C24_Additive ==
  /\ [](Compositing =>
          /\ Len(mergedPDF) = SumSeq(filePagesList)
          /\ MergedOrigins = ExpectedPages)
  /\ [][pc = "fields" =>
          /\ mergedPDF' = mergedPDF
          /\ filePageToGlobalPage' = filePageToGlobalPage
          /\ IsPrefix(draws, draws')]_vars

C24_Witness ==
  /\ pc = "done"
  /\ \E j1, j2 \in DOMAIN draws :
       /\ j1 < j2
       /\ draws[j1].field = draws[j2].field
       /\ draws[j1].page = draws[j2].page
       /\ draws[j1].signer # draws[j2].signer

\* ------------------------------------------------------------ legacy pixels
\* v * (page / original) in hundredths of a point, with the page's own
\* dimension for an absent original one; defined when the quotient is whole.
ScaledBy(v, page, original) ==
  LET den == IF original # 0 THEN original ELSE page
  IN  CHOOSE q \in { (v * 100 * page) \div den } : q * den = v * 100 * page

LegacyBox(field, page) ==
  [x |-> ScaledBy(field.x, page.width, field.originalWidth),
   y |-> (100 * page.height) - ScaledBy(field.y, page.height, field.originalHeight)
           - ScaledBy(field.height, page.height, field.originalHeight),
   width |-> ScaledBy(field.width, page.width, field.originalWidth),
   height |-> ScaledBy(field.height, page.height, field.originalHeight)]

\* C25: a field in the legacy pixel form is drawn in the box given by
\* x*scaleX, pageHeight - y*scaleY - height*scaleY, width*scaleX,
\* height*scaleY (scale 1 for an absent original dimension), clamped when it
\* leaves the page.
C25_LegacyPixelBox ==
  \A j \in DOMAIN draws :
    FieldOfDraw(j).form = "px" =>
      LET b == LegacyBox(FieldOfDraw(j), PageOfDraw(j))
      IN  /\ OnPage(b, PageOfDraw(j)) => draws[j].box = b
          /\ ~OnPage(b, PageOfDraw(j)) =>
               draws[j].box = ClampBox(b, PageOfDraw(j).width, PageOfDraw(j).height)
          /\ (FieldOfDraw(j).originalWidth = 0 /\ FieldOfDraw(j).originalHeight = 0) =>
               b = [x |-> 100 * FieldOfDraw(j).x,
                    y |-> 100 * (PageOfDraw(j).height - FieldOfDraw(j).y - FieldOfDraw(j).height),
                    width |-> 100 * FieldOfDraw(j).width,
                    height |-> 100 * FieldOfDraw(j).height]

C25_Witness ==
  \E j \in DOMAIN draws :
    /\ FieldOfDraw(j).form = "px"
    /\ FieldOfDraw(j).x = 100 /\ FieldOfDraw(j).y = 100
    /\ FieldOfDraw(j).width = 100 /\ FieldOfDraw(j).height = 100
    /\ FieldOfDraw(j).originalWidth = 400 /\ FieldOfDraw(j).originalHeight = 400
    /\ PageOfDraw(j).width = 200 /\ PageOfDraw(j).height = 400
    /\ draws[j].box = [x |-> 5000, y |-> 20000, width |-> 5000, height |-> 10000]

\* ------------------------------------------------------------ text parameters
\* C26: the plain-text value of a signature or initial field is drawn with
\* the parameters a text field with that box gets: x + 2, y + height/2 -
\* fontSize/2, fontSize = clamp(0.6 * height, 8, 14), maxWidth = width - 4.
C26_SignatureTextAsText ==
  \A j \in DOMAIN draws :
    (FieldOfDraw(j).type \in SignTypes /\ draws[j].op = "text") =>
      LET box == draws[j].box
          fontSize == draws[j].params.size
      IN  /\ draws[j].params = TextFieldParams(box)
          /\ 800 <= fontSize /\ fontSize <= 1400
          /\ 10 * fontSize = IF 6 * box.height < 8000 THEN 8000
                             ELSE IF 6 * box.height > 14000 THEN 14000
                             ELSE 6 * box.height
          /\ draws[j].params.x = box.x + 200
          /\ 2 * draws[j].params.y = (2 * box.y) + box.height - fontSize
          /\ draws[j].params.maxWidth = box.width - 400

C26_SmallBoxWitness ==
  \E j \in DOMAIN draws :
    /\ FieldOfDraw(j).type \in SignTypes /\ draws[j].op = "text"
    /\ draws[j].box.height = 0
    /\ draws[j].params.size = 800

C26_Witness ==
  \E j1, j2 \in DOMAIN draws :
    /\ FieldOfDraw(j1).type \in SignTypes /\ draws[j1].op = "text"
    /\ FieldOfDraw(j2).type \in TextTypes /\ draws[j2].op = "text"
    /\ draws[j1].content = draws[j2].content
    /\ draws[j1].params.size = 1400
    /\ draws[j1].params.y = draws[j1].box.y + 1300

\* ------------------------------------------------------------ two compositors
\* Which field of which signer is drawn on which page in which box.
Placements(made) ==
  { [signer |-> made[j].signer, field |-> made[j].field, fileIndex |-> made[j].fileIndex,
     page |-> made[j].page, box |-> made[j].box] : j \in DOMAIN made }

BothComposited == pc = "done" /\ standaloneFor = Len(signedSigners) /\ ~standaloneError

\* C27: addFieldsToPDF and the inline loop, given the same document, signers
\* and merged PDF, draw the same fields on the same pages in the same boxes.
C27_CompositorsAgree ==
  BothComposited => Placements(standalone) = Placements(draws)

\* They do agree when every file is merged with exactly one page and every
\* field names page 1.
C27_OnePagePerFile ==
  ( /\ BothComposited
    /\ Len(filePagesList) = Len(FilesOf(documentData))
    /\ \A f \in 1..Len(filePagesList) : filePagesList[f] = 1
    /\ \A fi \in 1..Len(AllFields(documentData)) :
         PageNumOf(AllFields(documentData)[fi].field) = 1 )
  => Placements(standalone) = Placements(draws)

\* ------------------------------------------------------------ host callers
RetrievablePdf ==
  \E name \in DOMAIN storage : storage[name].fetch = "ok" /\ storage[name].loads

\* C28: on the submit and download paths a completed document with a signed
\* signer and a retrievable valid PDF gives a returned run, not a failure
\* for want of files.
C28_HostCallReturns ==
  ( /\ hostPath \in {"submit", "download"}
    /\ pc \in {"done", "failed"}
    /\ SomeSignerSigned
    /\ RetrievablePdf )
  => (pc = "done" /\ error # "NoSupportedFiles")

\* The same call with the bucket handed over does return.
C28_DirectCallReturns ==
  (hostPath = "direct" /\ pc \in {"done", "failed"} /\ SomeSignerSigned /\ RetrievablePdf)
    => pc = "done"

\* ------------------------------------------------------------- clamp step
\* The value of [lo, hi] nearest to v.
Nearest(v, lo, hi) == IF v < lo THEN lo ELSE IF v > hi THEN hi ELSE v

\* One axis of the clamp step: a size that fits the page is kept and the
\* offset is moved to the nearest value that keeps the box on the page; a
\* larger size becomes the page size, with offset 0.
AxisClamped(offset, size, pageSize, drawnOffset, drawnSize) ==
  /\ size <= pageSize =>
       /\ drawnSize = size
       /\ drawnOffset = Nearest(offset, 0, pageSize - size)
  /\ size > pageSize =>
       /\ drawnSize = pageSize
       /\ drawnOffset = 0
  /\ drawnSize # size => size > pageSize

\* C29: in the clamp step a box no larger than the page keeps its width and
\* height and is moved inward; width or height is reduced only when it is
\* larger than the page, and then it is the page dimension at offset 0.
C29_ClampMovesInward ==
  \A j \in DOMAIN draws :
    LET page == PageOfDraw(j)
        raw  == RawBox(FieldOfDraw(j), page)
        box  == draws[j].box
    IN  OutOfBounds(raw, page.width, page.height) =>
          /\ AxisClamped(raw.x, raw.width, 100 * page.width, box.x, box.width)
          /\ AxisClamped(raw.y, raw.height, 100 * page.height, box.y, box.height)

\* A box that stuck out to the right was moved left with its width kept,
\* while its height, larger than the page, became the page height.
C29_Witness ==
  \E j \in DOMAIN draws :
    LET page == PageOfDraw(j)
        raw  == RawBox(FieldOfDraw(j), page)
        box  == draws[j].box
    IN  /\ raw.width > 0
        /\ raw.width < 100 * page.width
        /\ raw.x + raw.width > 100 * page.width
        /\ box.width = raw.width
        /\ 0 < box.x
        /\ box.x < raw.x
        /\ box.x + box.width = 100 * page.width
        /\ raw.height > 100 * page.height
        /\ box.height = 100 * page.height
        /\ box.y = 0

\* ------------------------------------------------------- signature submit
\* Two answered requests of different signers of the document.
BothSubmitted ==
  /\ documents.exists
  /\ \A r \in DOMAIN submits : submits[r].at = "answered" /\ submits[r].answer = 200
  /\ submits[1].signerEmail # submits[2].signerEmail
  /\ \A r \in DOMAIN submits : submits[r].signerEmail \in 1..Len(documents.signers)

Recorded(r) ==
  LET signer == documents.signers[submits[r].signerEmail]
  IN  signer.signed /\ signer.fieldValues = submits[r].fieldValues

\* C30: after the submits of two different signers have completed, both
\* are recorded as signed with their field values, and the document is
\* completed when no other signer is left unsigned.
C30_BothRecorded ==
  BothSubmitted =>
    /\ \A r \in DOMAIN submits : Recorded(r)
    /\ ( \A si \in 1..Len(documents.signers) :
           (\A r \in DOMAIN submits : submits[r].signerEmail # si)
             => StoredSigner(si, TRUE) = documents.signers[si] )
         => documents.status = "completed"

\* When the second request fetched the document after the first had written
\* it, nothing is lost.
C30_SerialRecorded ==
  ( /\ BothSubmitted
    /\ \E a \in DOMAIN submits, b \in DOMAIN submits :
         /\ a # b
         /\ submits[b].documentData.signers[submits[a].signerEmail].fieldValues
              = submits[a].fieldValues )
  => /\ \A r \in DOMAIN submits : Recorded(r)
     /\ (\A si \in 1..Len(documents.signers) : documents.signers[si].signed)
          <=> documents.status = "completed"

====
